---- MODULE Spec2Model ----
(***************************************************************************)
(* Model of the e-melder registration core: the rank, weight-class and     *)
(* bracket enumerations of tournament_info.rs, the bucketing loop          *)
(* registering_athletes_to_tournaments, the renderer, the file writer of   *)
(* utils.rs, and the handlers of the user interface that act on the        *)
(* athlete store and on the pending registrations.                         *)
(*                                                                         *)
(* Text that the code inspects character by character (weight-class        *)
(* strings, paths, rendered blocks) is a sequence of one-character         *)
(* strings; text that the code only compares for equality (names, age      *)
(* categories, rank keys) is a TLA+ string.  Option<T> is a sequence:      *)
(* None is <<>>, Some(x) is <<x>>.                                         *)
(***************************************************************************)
EXTENDS Integers, Sequences, FiniteSets, TLC

VARIABLES
    op, arg, res,             \* the last call of a pure function, its input and its output
    registering_athletes,     \* input slice of registering_athletes_to_tournaments
    name, date, place, club,  \* the remaining parameters of the call
    tournament_meta,          \* HashMap<(&str, GenderCategory), usize> of the loop
    ret,                      \* Vec<Tournament> built by the loop
    pos,                      \* number of registrations the loop has consumed
    pc,                       \* "idle", "loop" (bucketing), "returned", "write" (writing files),
                              \* "panicked" (the expect of the Register task)
    result,                   \* the Option the call returned (None until it returns)
    athletes,                 \* EMelderApp.athletes
    edit_athlete_weight_categories, \* the weight strings of the athlete editor, one per athlete
    registering,              \* EMelderApp.registering: pending list, event name, place, date
    self_club,                \* EMelderApp.club
    configs,                  \* EMelderApp.configs
    panicked,                 \* "none", or the panic that ended the thread that raised it
    added,                    \* history: athletes added so far
    watched,                  \* history: index of the athlete whose graduations are counted
    graduations,              \* history: Graduate messages handled for that athlete
    config,                   \* value of "tournament-basedir" in the configuration file
    files,                    \* the file system: path |-> what the file holds
    io_log,                   \* I/O operations of the Register being handled, in order
    wpos,                     \* number of tournaments write_tournaments has written
    written,                  \* outcome of the last Register ("none" before the first)
    registers                 \* history: Register clicks handled so far

vars == <<op, arg, res, registering_athletes, name, date, place, club, tournament_meta,
          ret, pos, pc, result, athletes, edit_athlete_weight_categories, registering,
          self_club, configs, panicked, added, watched, graduations,
          config, files, io_log, wpos, written, registers>>

pureVars == <<op, arg, res>>
bucketVars ==
    <<registering_athletes, name, date, place, club, tournament_meta, ret, pos, pc, result>>
usageVars == <<edit_athlete_weight_categories, registering, self_club, configs, panicked, added>>
appVars == <<athletes, watched, graduations, usageVars>>
ioVars == <<config, files, io_log, wpos, written, registers>>

None == <<>>
Some(x) == <<x>>

(***************************************************************************)
(* Bounds of the model.                                                    *)
(***************************************************************************)
MaxWeightLen == 4
MaxRegs == 3
MaxAthletes == 2
MaxGraduations == 19
MaxTextLen == 3
MaxListed == 10
MaxPending == 2
MaxRegisters == 2

(***************************************************************************)
(* Belt                                                                    *)
(***************************************************************************)
BeltSeq ==
    <<"Kyu9", "Kyu8", "Kyu7", "Kyu6", "Kyu5", "Kyu4", "Kyu3", "Kyu2", "Kyu1",
      "Dan1", "Dan2", "Dan3", "Dan4", "Dan5", "Dan6", "Dan7", "Dan8", "Dan9", "Dan10">>

Belt == {BeltSeq[k] : k \in 1..Len(BeltSeq)}

Belt_to_number_swapped(self) ==
    CASE self = "Kyu9" -> 1
      [] self = "Kyu8" -> 2
      [] self = "Kyu7" -> 3
      [] self = "Kyu6" -> 4
      [] self = "Kyu5" -> 5
      [] self = "Kyu4" -> 6
      [] self = "Kyu3" -> 7
      [] self = "Kyu2" -> 8
      [] self = "Kyu1" -> 10
      [] self = "Dan1" -> 9
      [] self = "Dan2" -> 11
      [] self = "Dan3" -> 12
      [] self = "Dan4" -> 13
      [] self = "Dan5" -> 14
      [] self = "Dan6" -> 15
      [] self = "Dan7" -> 16
      [] self = "Dan8" -> 17
      [] self = "Dan9" -> 18
      [] self = "Dan10" -> 19

Belt_to_number(self) ==
    CASE self = "Kyu9" -> 1
      [] self = "Kyu8" -> 2
      [] self = "Kyu7" -> 3
      [] self = "Kyu6" -> 4
      [] self = "Kyu5" -> 5
      [] self = "Kyu4" -> 6
      [] self = "Kyu3" -> 7
      [] self = "Kyu2" -> 8
      [] self = "Kyu1" -> 9
      [] self = "Dan1" -> 10
      [] self = "Dan2" -> 11
      [] self = "Dan3" -> 12
      [] self = "Dan4" -> 13
      [] self = "Dan5" -> 14
      [] self = "Dan6" -> 15
      [] self = "Dan7" -> 16
      [] self = "Dan8" -> 17
      [] self = "Dan9" -> 18
      [] self = "Dan10" -> 19

Belt_from_str(s) ==
    CASE s = "kyu9" -> Some("Kyu9")
      [] s = "kyu8" -> Some("Kyu8")
      [] s = "kyu7" -> Some("Kyu7")
      [] s = "kyu6" -> Some("Kyu6")
      [] s = "kyu5" -> Some("Kyu5")
      [] s = "kyu4" -> Some("Kyu4")
      [] s = "kyu3" -> Some("Kyu3")
      [] s = "kyu2" -> Some("Kyu2")
      [] s = "kyu1" -> Some("Kyu1")
      [] s = "dan1" -> Some("Dan1")
      [] s = "dan2" -> Some("Dan2")
      [] s = "dan3" -> Some("Dan3")
      [] s = "dan4" -> Some("Dan4")
      [] s = "dan5" -> Some("Dan5")
      [] s = "dan6" -> Some("Dan6")
      [] s = "dan7" -> Some("Dan7")
      [] s = "dan8" -> Some("Dan8")
      [] s = "dan9" -> Some("Dan9")
      [] s = "dan10" -> Some("Dan10")
      [] OTHER -> None

Belt_inc_stuck(self) ==
    CASE self = "Kyu9" -> "Kyu8"
      [] self = "Kyu8" -> "Kyu7"
      [] self = "Kyu7" -> "Kyu6"
      [] self = "Kyu6" -> "Kyu5"
      [] self = "Kyu5" -> "Kyu4"
      [] self = "Kyu4" -> "Kyu3"
      [] self = "Kyu3" -> "Kyu2"
      [] self = "Kyu2" -> "Kyu1"
      [] self = "Kyu1" -> "Kyu1"
      [] self = "Dan1" -> "Dan2"
      [] self = "Dan2" -> "Dan3"
      [] self = "Dan3" -> "Dan4"
      [] self = "Dan4" -> "Dan5"
      [] self = "Dan5" -> "Dan6"
      [] self = "Dan6" -> "Dan7"
      [] self = "Dan7" -> "Dan8"
      [] self = "Dan8" -> "Dan9"
      [] self \in {"Dan9", "Dan10"} -> "Dan10"

Belt_inc(self) ==
    CASE self = "Kyu9" -> "Kyu8"
      [] self = "Kyu8" -> "Kyu7"
      [] self = "Kyu7" -> "Kyu6"
      [] self = "Kyu6" -> "Kyu5"
      [] self = "Kyu5" -> "Kyu4"
      [] self = "Kyu4" -> "Kyu3"
      [] self = "Kyu3" -> "Kyu2"
      [] self = "Kyu2" -> "Kyu1"
      [] self = "Kyu1" -> "Dan1"
      [] self = "Dan1" -> "Dan2"
      [] self = "Dan2" -> "Dan3"
      [] self = "Dan3" -> "Dan4"
      [] self = "Dan4" -> "Dan5"
      [] self = "Dan5" -> "Dan6"
      [] self = "Dan6" -> "Dan7"
      [] self = "Dan7" -> "Dan8"
      [] self = "Dan8" -> "Dan9"
      [] self \in {"Dan9", "Dan10"} -> "Dan10"

Belt_serialise_short(self) ==
    CASE self = "Kyu9" -> "kyu9"
      [] self = "Kyu8" -> "kyu8"
      [] self = "Kyu7" -> "kyu7"
      [] self = "Kyu6" -> "kyu6"
      [] self = "Kyu5" -> "kyu5"
      [] self = "Kyu4" -> "kyu4"
      [] self = "Kyu3" -> "kyu3"
      [] self = "Kyu2" -> "kyu2"
      [] self = "Kyu1" -> "kyu1"
      [] self = "Dan1" -> "dan1"
      [] self = "Dan2" -> "dan2"
      [] self = "Dan3" -> "dan3"
      [] self = "Dan4" -> "dan4"
      [] self = "Dan5" -> "dan5"
      [] self = "Dan6" -> "dan6"
      [] self = "Dan7" -> "dan7"
      [] self = "Dan8" -> "dan8"
      [] self = "Dan9" -> "dan9"
      [] self = "Dan10" -> "dan1"

Belt_serialise(self) ==
    CASE self = "Kyu9" -> "kyu9"
      [] self = "Kyu8" -> "kyu8"
      [] self = "Kyu7" -> "kyu7"
      [] self = "Kyu6" -> "kyu6"
      [] self = "Kyu5" -> "kyu5"
      [] self = "Kyu4" -> "kyu4"
      [] self = "Kyu3" -> "kyu3"
      [] self = "Kyu2" -> "kyu2"
      [] self = "Kyu1" -> "kyu1"
      [] self = "Dan1" -> "dan1"
      [] self = "Dan2" -> "dan2"
      [] self = "Dan3" -> "dan3"
      [] self = "Dan4" -> "dan4"
      [] self = "Dan5" -> "dan5"
      [] self = "Dan6" -> "dan6"
      [] self = "Dan7" -> "dan7"
      [] self = "Dan8" -> "dan8"
      [] self = "Dan9" -> "dan9"
      [] self = "Dan10" -> "dan10"

(***************************************************************************)
(* WeightCategory                                                          *)
(***************************************************************************)
U8_MAX == 255

DigitChars == <<"0", "1", "2", "3", "4", "5", "6", "7", "8", "9">>

IsAsciiDigit(c) == \E d \in 1..10 : DigitChars[d] = c

DigitOf(c) == (CHOOSE d \in 1..10 : DigitChars[d] = c) - 1

WeightCategoryKind == {"Under", "Over"}

WeightCategory == [kind : WeightCategoryKind, limit : 0..U8_MAX]

WeightCategory_default == [kind |-> "Under", limit |-> 10]

\* format!("{}", n) of an unsigned integer: decimal digits, most significant first
RECURSIVE fmt_decimal(_)
fmt_decimal(n) ==
    IF n < 10 THEN <<DigitChars[n + 1]>>
    ELSE fmt_decimal(n \div 10) \o <<DigitChars[(n % 10) + 1]>>

\* the digit loop of str::parse::<u8>: checked multiply-and-add, None on overflow
RECURSIVE parse_digits(_, _, _)
parse_digits(digits, k, acc) ==
    IF k > Len(digits) THEN Some(acc)
    ELSE IF ~IsAsciiDigit(digits[k]) THEN None
    ELSE LET next == acc * 10 + DigitOf(digits[k])
         IN IF next > U8_MAX THEN None ELSE parse_digits(digits, k + 1, next)

\* str::parse::<u8>: empty fails, a lone sign fails, one leading '+' is skipped,
\* '-' is no sign of an unsigned type and is read as an (invalid) digit
parse_u8(src) ==
    IF Len(src) = 0 THEN None
    ELSE IF Len(src) = 1 /\ src[1] \in {"+", "-"} THEN None
    ELSE parse_digits(IF src[1] = "+" THEN Tail(src) ELSE src, 1, 0)

starts_with(s, c) == Len(s) >= 1 /\ s[1] = c

WeightCategory_render_signless(self) ==
    fmt_decimal(self.limit)

WeightCategory_render(self) ==
    IF self.kind = "Over" THEN <<>>
    ELSE fmt_decimal(self.limit)

WeightCategory_from_str(s) ==
    IF ~starts_with(s, "-") /\ ~starts_with(s, "+") THEN None
    ELSE LET kind == IF starts_with(s, "-") THEN "Under" ELSE "Over"
             limit == parse_u8(SubSeq(s, 2, Len(s)))
         IN IF limit = None THEN None
            ELSE Some([kind |-> kind, limit |-> limit[1]])

WeightCategory_to_string_as_render(self) ==
    IF self.kind = "Under" THEN <<"-">> \o fmt_decimal(self.limit)
    ELSE fmt_decimal(self.limit)

WeightCategory_to_string(self) ==
    IF self.kind = "Under" THEN <<"-">> \o fmt_decimal(self.limit)
    ELSE <<"+">> \o fmt_decimal(self.limit)

(***************************************************************************)
(* GenderCategory, Athlete, RegisteringAthlete, Tournament                 *)
(***************************************************************************)
GenderCategory == {"Mixed", "Male", "Female"}

GenderCategory_render_english(self) ==
    CASE self = "Female" -> "f"
      [] self = "Male" -> "m"
      [] self = "Mixed" -> "g"

\* the official application uses German abbreviations
GenderCategory_render(self) ==
    CASE self = "Female" -> "w"
      [] self = "Male" -> "m"
      [] self = "Mixed" -> "g"

GenderCategory_from_str(s) ==
    CASE s = "w" -> Some("Female")
      [] s = "m" -> Some("Male")
      [] s = "g" -> Some("Mixed")
      [] OTHER -> None

Athlete_new(given_name, sur_name, birth_year, belt, weight_category, gender) ==
    [given_name |-> given_name, sur_name |-> sur_name, belt |-> belt,
     weight_category |-> weight_category, birth_year |-> birth_year, gender |-> gender]

Tournament_new_place_as_name(t_name, t_date, t_place, age_category, gender, t_club, t_athletes) ==
    [name |-> t_place, date |-> t_date, place |-> t_name, age_category |-> age_category,
     gender_category |-> gender, club |-> t_club, athletes |-> t_athletes]

Tournament_new(t_name, t_date, t_place, age_category, gender, t_club, t_athletes) ==
    [name |-> t_name, date |-> t_date, place |-> t_place, age_category |-> age_category,
     gender_category |-> gender, club |-> t_club, athletes |-> t_athletes]

MetaKeyAgeOnly(registering_athlete) ==
    <<registering_athlete.age_category, "Mixed">>

\* key of tournament_meta: (&registering_athlete.age_category, registering_athlete.gender_category)
MetaKey(registering_athlete) ==
    <<registering_athlete.age_category, registering_athlete.gender_category>>

(***************************************************************************)
(* Rendering.  The templates (athlete-format, sender-format, club-format,  *)
(* tournament-format) are assets outside the code; a rendered record is    *)
(* the list of the values format! substitutes, in the order of its         *)
(* arguments.  The athlete-list block is text: a sequence of tokens, each  *)
(* a character or one rendered athlete line.                               *)
(***************************************************************************)
Chr(c) == [tok |-> "char", val |-> c]

Chars(s) == [k \in 1..Len(s) |-> Chr(s[k])]

LineTok(line) == [tok |-> "athlete", val |-> line]

\* format!("{}", self.to_number())
Belt_render(self) == fmt_decimal(Belt_to_number(self))

Athlete_render(self) ==
    <<self.sur_name, self.given_name, Belt_render(self.belt),
      WeightCategory_render(self.weight_category), fmt_decimal(self.birth_year)>>

Sender_render(self, club_name) ==
    <<club_name, self.given_name, self.sur_name, self.address, self.postal_code, self.town,
      self.private_phone, self.public_phone, self.fax, self.mobile, self.mail>>

Club_render(self) ==
    <<self.name, self.number, self.sender.sur_name, self.sender.given_name,
      self.sender.address, self.sender.postal_code, self.sender.town,
      self.sender.private_phone, self.sender.public_phone, self.sender.mobile,
      self.sender.mail, self.sender.fax, self.county, self.region, self.state, self.group,
      self.nation>>

\* zero-padded decimal of at least `width` digits
pad_decimal(n, width) ==
    LET digits == fmt_decimal(n)
    IN IF Len(digits) >= width THEN digits
       ELSE [k \in 1..width |-> IF k <= width - Len(digits) THEN "0"
                                 ELSE digits[k - (width - Len(digits))]]

\* date.format("%d.%m.%Y"): years after 9999 are written with a sign
NaiveDate_format(d) ==
    pad_decimal(d.day, 2) \o <<".">> \o pad_decimal(d.month, 2) \o <<".">>
        \o (IF d.year > 9999 THEN <<"+">> ELSE <<>>) \o pad_decimal(d.year, 4)

\* one pass of the for loop of render, from the i-th athlete (0-based) on
RECURSIVE render_zero_based_from(_, _, _)
render_zero_based_from(athletes_, i, ret_) ==
    IF i >= Len(athletes_) THEN ret_
    ELSE render_zero_based_from(athletes_, i + 1,
             ret_ \o Chars(fmt_decimal(i)) \o Chars(<<"=", "\"", "\"", "1", "\"", ",">>)
                 \o <<LineTok(Athlete_render(athletes_[i + 1]))>> \o Chars(<<"\"">>)
                 \o (IF i < Len(athletes_) - 1 THEN Chars(<<"\n">>) ELSE <<>>))

RECURSIVE render_from(_, _, _)
render_from(athletes_, i, ret_) ==
    IF i >= Len(athletes_) THEN ret_
    ELSE render_from(athletes_, i + 1,
             ret_ \o Chars(fmt_decimal(i + 1)) \o Chars(<<"=", "\"", "\"", "1", "\"", ",">>)
                 \o <<LineTok(Athlete_render(athletes_[i + 1]))>> \o Chars(<<"\"">>)
                 \o (IF i < Len(athletes_) - 1 THEN Chars(<<"\n">>) ELSE <<>>))

render_zero_based(athletes_) == render_zero_based_from(athletes_, 0, <<>>)

\* fn render(athletes: &[Athlete]) -> String
render(athletes_) == render_from(athletes_, 0, <<>>)

Tournament_render_place_first(self) ==
    <<Sender_render(self.club.sender, self.club.name), self.place,
      NaiveDate_format(self.date), self.name, self.age_category,
      GenderCategory_render(self.gender_category),
      GenderCategory_render(self.gender_category), Club_render(self.club),
      render(self.athletes), fmt_decimal(Len(self.athletes))>>

Tournament_render(self) ==
    <<Sender_render(self.club.sender, self.club.name), self.name,
      NaiveDate_format(self.date), self.place, self.age_category,
      GenderCategory_render(self.gender_category),
      GenderCategory_render(self.gender_category), Club_render(self.club),
      render(self.athletes), fmt_decimal(Len(self.athletes))>>

(***************************************************************************)
(* utils.rs: the text-to-byte step of write_tournament.  A character is    *)
(* its code point.                                                         *)
(***************************************************************************)
\* a conforming Latin-1 encoder would write '?' for what it cannot represent
string_to_iso_8859_1_bytes_replacing(s) ==
    [k \in 1..Len(s) |-> IF s[k] > U8_MAX THEN 63 ELSE s[k]]

\* s.chars().map(|c| { c as u8 }).collect()
string_to_iso_8859_1_bytes(s) ==
    [k \in 1..Len(s) |-> s[k] % (U8_MAX + 1)]

(***************************************************************************)
(* registering_athletes_to_tournaments: one action per iteration of the    *)
(* for loop, one for the early return of `?`, one for the final Some(ret). *)
(***************************************************************************)
BucketRunning == pc = "loop" /\ pos < Len(registering_athletes)

\* if let Some(index) = index_opt: push onto the tournament found in tournament_meta
BucketAppendFront ==
    /\ BucketRunning
    /\ LET registering_athlete == registering_athletes[pos + 1]
           key == MetaKey(registering_athlete)
           weight == WeightCategory_from_str(registering_athlete.weight_category)
       IN /\ key \in DOMAIN tournament_meta
          /\ weight # None
          /\ ret' = [ret EXCEPT ![tournament_meta[key]].athletes =
                 <<Athlete_new(registering_athlete.given_name,
                     registering_athlete.sur_name, registering_athlete.birth_year,
                     registering_athlete.belt, weight[1],
                     registering_athlete.gender_category)>> \o @]
          /\ pos' = pos + 1
          /\ UNCHANGED <<registering_athletes, name, date, place, club, tournament_meta,
                         pc, result, pureVars, appVars, ioVars>>

BucketAppend ==
    /\ BucketRunning
    /\ LET registering_athlete == registering_athletes[pos + 1]
           key == MetaKey(registering_athlete)
           weight == WeightCategory_from_str(registering_athlete.weight_category)
       IN /\ key \in DOMAIN tournament_meta
          /\ weight # None
          /\ ret' = [ret EXCEPT ![tournament_meta[key]].athletes =
                 Append(@, Athlete_new(registering_athlete.given_name,
                     registering_athlete.sur_name, registering_athlete.birth_year,
                     registering_athlete.belt, weight[1],
                     registering_athlete.gender_category))]
          /\ pos' = pos + 1
          /\ UNCHANGED <<registering_athletes, name, date, place, club, tournament_meta,
                         pc, result, pureVars, appVars, ioVars>>

BucketCreateRejectsIllegalBracket ==
    /\ BucketRunning
    /\ LET registering_athlete == registering_athletes[pos + 1]
           key == MetaKey(registering_athlete)
           weight == WeightCategory_from_str(registering_athlete.weight_category)
           legal == \/ registering_athlete.gender = "Mixed"
                    \/ registering_athlete.gender_category = "Mixed"
                    \/ registering_athlete.gender_category = registering_athlete.gender
       IN /\ key \notin DOMAIN tournament_meta
          /\ weight # None
          /\ IF legal
             THEN /\ ret' = Append(ret, Tournament_new(name, date, place,
                         registering_athlete.age_category,
                         registering_athlete.gender_category, club,
                         <<Athlete_new(registering_athlete.given_name,
                             registering_athlete.sur_name, registering_athlete.birth_year,
                             registering_athlete.belt, weight[1],
                             registering_athlete.gender)>>))
                  /\ tournament_meta' = [k \in DOMAIN tournament_meta \cup {key} |->
                         IF k = key THEN Len(ret') ELSE tournament_meta[k]]
                  /\ pos' = pos + 1
                  /\ UNCHANGED <<pc, result>>
             ELSE /\ pc' = "returned"
                  /\ result' = None
                  /\ UNCHANGED <<ret, tournament_meta, pos>>
          /\ UNCHANGED <<registering_athletes, name, date, place, club,
                         pureVars, appVars, ioVars>>

\* else: push a new tournament holding the first athlete and remember its index
BucketCreate ==
    /\ BucketRunning
    /\ LET registering_athlete == registering_athletes[pos + 1]
           key == MetaKey(registering_athlete)
           weight == WeightCategory_from_str(registering_athlete.weight_category)
       IN /\ key \notin DOMAIN tournament_meta
          /\ weight # None
          /\ ret' = Append(ret, Tournament_new(name, date, place,
                 registering_athlete.age_category, registering_athlete.gender_category, club,
                 <<Athlete_new(registering_athlete.given_name,
                     registering_athlete.sur_name, registering_athlete.birth_year,
                     registering_athlete.belt, weight[1], registering_athlete.gender)>>))
          /\ tournament_meta' = [k \in DOMAIN tournament_meta \cup {key} |->
                 IF k = key THEN Len(ret') ELSE tournament_meta[k]]
          /\ pos' = pos + 1
          /\ UNCHANGED <<registering_athletes, name, date, place, club, pc, result,
                         pureVars, appVars, ioVars>>

BucketParseFailPartial ==
    /\ BucketRunning
    /\ WeightCategory_from_str(registering_athletes[pos + 1].weight_category) = None
    /\ pc' = "returned"
    /\ result' = Some(ret)
    /\ UNCHANGED <<registering_athletes, name, date, place, club, tournament_meta, ret, pos,
                   pureVars, appVars, ioVars>>

\* WeightCategory::from_str(..)? in either branch: the call returns None
BucketParseFail ==
    /\ BucketRunning
    /\ WeightCategory_from_str(registering_athletes[pos + 1].weight_category) = None
    /\ pc' = "returned"
    /\ result' = None
    /\ UNCHANGED <<registering_athletes, name, date, place, club, tournament_meta, ret, pos,
                   pureVars, appVars, ioVars>>

\* Some(ret) after the loop
BucketReturn ==
    /\ pc = "loop"
    /\ pos = Len(registering_athletes)
    /\ pc' = "returned"
    /\ result' = Some(ret)
    /\ UNCHANGED <<registering_athletes, name, date, place, club, tournament_meta, ret, pos,
                   pureVars, appVars, ioVars>>

(***************************************************************************)
(* EMelderApp: EditAthleteMessage::Graduate                                *)
(***************************************************************************)
Graduate(index) ==
    /\ index \in 1..Len(athletes)
    /\ index = watched => graduations < MaxGraduations
    /\ athletes' = [athletes EXCEPT ![index].belt = Belt_inc(athletes[index].belt)]
    /\ graduations' = IF index = watched THEN graduations + 1 ELSE graduations
    /\ UNCHANGED <<watched, usageVars, pureVars, bucketVars, ioVars>>

(***************************************************************************)
(* Calls of the pure functions.  A behaviour makes one call: the action    *)
(* records the function, the input and what the function returned.         *)
(***************************************************************************)
WeightAlphabet == {"-", "+", "0", "2", "5", "6", "a"}

WeightStrings == UNION {[1..n -> WeightAlphabet] : n \in 0..MaxWeightLen}

BeltKeyStrings ==
    {Belt_serialise(b) : b \in Belt}
    \cup {"", "kyu", "dan", "kyu0", "kyu10", "dan0", "dan11", "dan01", "Kyu9", "KYU9",
          "Dan1", "DAN10", " kyu9", "kyu9 ", "9", "10"}

GenderCodeStrings ==
    {GenderCategory_render(g) : g \in GenderCategory}
    \cup {"", "f", "d", "x", "M", "W", "G", "mw", "gg", " m", "w ", "male", "Male", "Female",
          "Mixed", "weiblich", "0", "1"}

\* NUL, '-', 'A', U+00E4, U+00FF, U+0100, U+012D, U+20AC, U+4E2D and char::MAX
CodePoints == {0, 45, 65, 228, 255, 256, 301, 8364, 20013, 1114111}

TextStrings == UNION {[1..n -> CodePoints] : n \in 0..MaxTextLen}

RenderAthletes ==
    {Athlete_new("Max", "Mustermann", 2005, "Kyu3", [kind |-> "Under", limit |-> 73], "Male"),
     Athlete_new("Anna", "Alt", 1999, "Dan1", [kind |-> "Over", limit |-> 78], "Female")}

RenderAthleteLists == UNION {[1..n -> RenderAthletes] : n \in 0..MaxListed}

RenderSender ==
    [given_name |-> "Erika", sur_name |-> "Muster", address |-> "Hauptstr. 1",
     postal_code |-> 12345, town |-> "Musterstadt", private_phone |-> "0123",
     public_phone |-> "0456", fax |-> "0789", mobile |-> "0151", mail |-> "club@example.org"]

RenderClub ==
    [name |-> "Judo Club", number |-> 1234567, sender |-> RenderSender, county |-> "County",
     region |-> "Region", state |-> "State", group |-> "Group", nation |-> "Nation"]

RenderDates ==
    {[day |-> 1, month |-> 3, year |-> 2025], [day |-> 31, month |-> 12, year |-> 1999],
     [day |-> 9, month |-> 10, year |-> 2030]}

\* tournaments as the bucketing loop builds them: at least one athlete each
RenderTournaments ==
    {Tournament_new("Cup", d, "Hall", age, g, RenderClub, a) :
        d \in RenderDates, age \in {"U18", ""}, g \in GenderCategory,
        a \in RenderAthleteLists \ {<<>>}}

PureIdle == op = "none" /\ arg = <<>> /\ res = <<>>

CallWeightFromStr ==
    /\ op = "none"
    /\ \E s \in WeightStrings :
        /\ op' = "WeightCategory::from_str"
        /\ arg' = s
        /\ res' = WeightCategory_from_str(s)
        /\ UNCHANGED <<bucketVars, appVars, ioVars>>

CallWeightToString ==
    /\ op = "none"
    /\ \E w \in WeightCategory :
        /\ op' = "WeightCategory::to_string"
        /\ arg' = w
        /\ res' = WeightCategory_to_string(w)
        /\ UNCHANGED <<bucketVars, appVars, ioVars>>

CallWeightRender ==
    /\ op = "none"
    /\ \E w \in WeightCategory :
        /\ op' = "WeightCategory::render"
        /\ arg' = w
        /\ res' = WeightCategory_render(w)
        /\ UNCHANGED <<bucketVars, appVars, ioVars>>

\* to_string for editing (RegisteringAthlete::from_athlete), parsed again when registering
CallWeightRoundTrip ==
    /\ op = "none"
    /\ \E w \in WeightCategory :
        /\ op' = "from_str(to_string)"
        /\ arg' = w
        /\ res' = WeightCategory_from_str(WeightCategory_to_string(w))
        /\ UNCHANGED <<bucketVars, appVars, ioVars>>

CallBeltToNumber ==
    /\ op = "none"
    /\ \E a \in Belt, b \in Belt :
        /\ op' = "Belt::to_number"
        /\ arg' = <<a, b>>
        /\ res' = <<Belt_to_number(a), Belt_to_number(b)>>
        /\ UNCHANGED <<bucketVars, appVars, ioVars>>

CallBeltFromStr ==
    /\ op = "none"
    /\ \E s \in BeltKeyStrings :
        /\ op' = "Belt::from_str"
        /\ arg' = s
        /\ res' = Belt_from_str(s)
        /\ UNCHANGED <<bucketVars, appVars, ioVars>>

CallBeltSerialise ==
    /\ op = "none"
    /\ \E b \in Belt :
        /\ op' = "Belt::serialise"
        /\ arg' = b
        /\ res' = Belt_serialise(b)
        /\ UNCHANGED <<bucketVars, appVars, ioVars>>

\* write_athletes then read_athletes: the key written for a rank is parsed again
CallBeltRoundTrip ==
    /\ op = "none"
    /\ \E b \in Belt :
        /\ op' = "from_str(serialise)"
        /\ arg' = b
        /\ res' = Belt_from_str(Belt_serialise(b))
        /\ UNCHANGED <<bucketVars, appVars, ioVars>>

\* read_athletes then write_athletes: a parsed key is written again
CallKeyRoundTrip ==
    /\ op = "none"
    /\ \E s \in BeltKeyStrings :
        /\ op' = "serialise(from_str)"
        /\ arg' = s
        /\ res' = (LET b == Belt_from_str(s)
                   IN IF b = None THEN None ELSE Some(Belt_serialise(b[1])))
        /\ UNCHANGED <<bucketVars, appVars, ioVars>>

\* deserialize_gender_category: the code read from the athletes file
CallGenderFromStr ==
    /\ op = "none"
    /\ \E s \in GenderCodeStrings :
        /\ op' = "GenderCategory::from_str"
        /\ arg' = s
        /\ res' = GenderCategory_from_str(s)
        /\ UNCHANGED <<bucketVars, appVars, ioVars>>

\* serialize_gender_category then deserialize_gender_category
CallGenderRoundTrip ==
    /\ op = "none"
    /\ \E g \in GenderCategory :
        /\ op' = "GenderCategory::from_str(render)"
        /\ arg' = g
        /\ res' = [code |-> GenderCategory_render(g),
                   parsed |-> GenderCategory_from_str(GenderCategory_render(g))]
        /\ UNCHANGED <<bucketVars, appVars, ioVars>>

CallStringToBytes ==
    /\ op = "none"
    /\ \E s \in TextStrings :
        /\ op' = "string_to_iso_8859_1_bytes"
        /\ arg' = s
        /\ res' = string_to_iso_8859_1_bytes(s)
        /\ UNCHANGED <<bucketVars, appVars, ioVars>>

CallRender ==
    /\ op = "none"
    /\ \E a \in RenderAthleteLists :
        /\ op' = "render"
        /\ arg' = a
        /\ res' = render(a)
        /\ UNCHANGED <<bucketVars, appVars, ioVars>>

CallTournamentRender ==
    /\ op = "none"
    /\ \E t \in RenderTournaments :
        /\ op' = "Tournament::render"
        /\ arg' = t
        /\ res' = Tournament_render(t)
        /\ UNCHANGED <<bucketVars, appVars, ioVars>>

BucketIdle ==
    /\ registering_athletes = <<>>
    /\ name = ""
    /\ date = ""
    /\ place = ""
    /\ club = ""
    /\ tournament_meta = <<>>
    /\ ret = <<>>
    /\ pos = 0
    /\ pc = "idle"
    /\ result = None

\* Registering::default(); the date is Local::now().date_naive()
Registering_default ==
    [athletes |-> <<>>, name |-> "", place |-> "", date |-> [day |-> 1, month |-> 3, year |-> 2025]]

\* the editor, the registering page, the club and the configuration left alone
UsageIdle ==
    /\ edit_athlete_weight_categories = <<>>
    /\ registering = Registering_default
    /\ self_club = RenderClub
    /\ configs = [tournament_basedir |-> <<"/", "o", "u", "t">>]
    /\ panicked = "none"
    /\ added = 0

AppIdle == athletes = <<>> /\ watched = 0 /\ graduations = 0 /\ UsageIdle

IoIdle ==
    /\ config = None
    /\ files = <<>>
    /\ io_log = <<>>
    /\ wpos = 0
    /\ written = "none"
    /\ registers = 0

InitPure == PureIdle /\ BucketIdle /\ AppIdle /\ IoIdle

NextPure ==
    \/ CallWeightFromStr
    \/ CallWeightToString
    \/ CallWeightRender
    \/ CallWeightRoundTrip
    \/ CallBeltToNumber
    \/ CallBeltFromStr
    \/ CallBeltSerialise
    \/ CallBeltRoundTrip
    \/ CallKeyRoundTrip
    \/ CallGenderFromStr
    \/ CallGenderRoundTrip
    \/ CallStringToBytes
    \/ CallRender
    \/ CallTournamentRender

SpecPure == InitPure /\ [][NextPure]_vars

(***************************************************************************)
(* Claims about the pure functions.                                        *)
(***************************************************************************)
\* value of a string of decimal digits, most significant first
RECURSIVE DecimalValue(_)
DecimalValue(s) ==
    IF Len(s) = 0 THEN 0
    ELSE 10 * DecimalValue(SubSeq(s, 1, Len(s) - 1)) + DigitOf(s[Len(s)])

AllDigits(s) == \A k \in 1..Len(s) : IsAsciiDigit(s[k])

\* s is one sign followed by one or more decimal digits whose value is in 0..255
SignThenDigits(s) ==
    /\ Len(s) >= 2
    /\ s[1] \in {"-", "+"}
    /\ AllDigits(Tail(s))
    /\ DecimalValue(Tail(s)) <= 255

\* s is the decimal string of n: digits only, no leading zero, value n
IsDecimalOf(s, n) ==
    /\ Len(s) >= 1
    /\ AllDigits(s)
    /\ (Len(s) > 1 => s[1] # "0")
    /\ DecimalValue(s) = n

\* C5: WeightCategory::from_str(s) succeeds if and only if s is exactly one '-' or
\* '+' followed by one or more decimal digits whose value is in 0..255, '-' giving
\* Under and '+' giving Over with that limit; every other string fails, also one
\* with a second sign after the first such as "-+5".
C5_FromStrIffSignThenDigits ==
    op = "WeightCategory::from_str" =>
        /\ (res # None) <=> SignThenDigits(arg)
        /\ res # None =>
               res[1] = [kind |-> IF arg[1] = "-" THEN "Under" ELSE "Over",
                         limit |-> DecimalValue(Tail(arg))]

\* C6: for every direction and every limit in 0..255, from_str(to_string(w))
\* succeeds and yields w again; the default Under(10) is shown as "-10".
C6_WeightRoundTrip ==
    /\ op = "from_str(to_string)" => res = Some(arg)
    /\ (op = "WeightCategory::to_string" /\ arg = WeightCategory_default) =>
           res = <<"-", "1", "0">>

C6_Witness ==
    /\ op = "from_str(to_string)"
    /\ arg = [kind |-> "Over", limit |-> 255]
    /\ res = Some([kind |-> "Over", limit |-> 255])

\* C7: render(Over(n)) is the empty string and render(Under(n)) is the decimal
\* string of n without sign, for every n in 0..255.
C7_RenderAsymmetric ==
    op = "WeightCategory::render" =>
        /\ arg.kind = "Over" => res = <<>>
        /\ arg.kind = "Under" => IsDecimalOf(res, arg.limit)

C7_Witness ==
    /\ op = "WeightCategory::render"
    /\ arg = [kind |-> "Over", limit |-> 100]
    /\ res = <<>>

CanonicalIndex(b) == CHOOSE k \in 1..Len(BeltSeq) : BeltSeq[k] = b

\* C8: Belt::to_number maps the 19 ranks one-to-one onto 1..19 and is strictly
\* increasing along Kyu9, ..., Kyu1, Dan1, ..., Dan10 (Kyu9 = 1, Kyu3 = 7, Dan10 = 19).
C8_ToNumberBijection ==
    op = "Belt::to_number" =>
        /\ res[1] \in 1..19
        /\ res[2] \in 1..19
        /\ CanonicalIndex(arg[1]) < CanonicalIndex(arg[2]) => res[1] < res[2]
        /\ arg[1] # arg[2] => res[1] # res[2]
        /\ arg[1] = "Kyu9" => res[1] = 1
        /\ arg[1] = "Kyu3" => res[1] = 7
        /\ arg[1] = "Dan10" => res[1] = 19

C8_Witness ==
    /\ op = "Belt::to_number"
    /\ arg = <<"Kyu1", "Dan1">>
    /\ res = <<9, 10>>

CanonicalKeys ==
    {"kyu9", "kyu8", "kyu7", "kyu6", "kyu5", "kyu4", "kyu3", "kyu2", "kyu1",
     "dan1", "dan2", "dan3", "dan4", "dan5", "dan6", "dan7", "dan8", "dan9", "dan10"}

\* C9: from_str(serialise(r)) = r for each rank r, serialise(from_str(k)) = k for
\* each canonical key k, and from_str fails for every string that is not one of
\* the 19 lowercase keys.
C9_BeltKeyRoundTrip ==
    /\ op = "from_str(serialise)" => res = Some(arg)
    /\ (op = "serialise(from_str)" /\ arg \in CanonicalKeys) => res = Some(arg)
    /\ op = "Belt::from_str" => ((res # None) <=> arg \in CanonicalKeys)
    /\ op = "Belt::serialise" => res \in CanonicalKeys

C9_Witness ==
    /\ op = "from_str(serialise)"
    /\ arg = "Dan10"
    /\ res = Some("Dan10")

\* the code table of the brackets as the file format fixes it
BracketCode(g) ==
    IF g = "Male" THEN "m" ELSE IF g = "Female" THEN "w" ELSE "g"

\* C11: every bracket is written as its code (Male "m", Female "w", Mixed "g") and
\* read back from that code as the same bracket; from_str returns a bracket exactly
\* for these three codes, the bracket that has the code, and fails for every other string.
C11_BracketCodeRoundTrip ==
    /\ op = "GenderCategory::from_str(render)" =>
           /\ res.code = BracketCode(arg)
           /\ res.parsed = Some(arg)
    /\ op = "GenderCategory::from_str" =>
           IF \E g \in GenderCategory : BracketCode(g) = arg
           THEN \E g \in GenderCategory : BracketCode(g) = arg /\ res = Some(g)
           ELSE res = None

C11_Witness ==
    /\ op = "GenderCategory::from_str(render)"
    /\ arg = "Female"
    /\ res.code = "w"
    /\ res.parsed = Some("Female")

\* C13: the encoder writes exactly one byte per character, the byte is the low eight
\* bits of the code point (code point minus byte is a multiple of 256), code points up
\* to 255 are written unchanged and U+4E2D (20013) is written as 0x2D (45).
C13_OneByteLowEightBits ==
    op = "string_to_iso_8859_1_bytes" =>
        /\ Len(res) = Len(arg)
        /\ \A k \in 1..Len(arg) :
               /\ res[k] \in 0..255
               /\ (arg[k] - res[k]) % 256 = 0
               /\ arg[k] <= 255 => res[k] = arg[k]
               /\ arg[k] = 20013 => res[k] = 45

C13_Witness ==
    /\ op = "string_to_iso_8859_1_bytes"
    /\ arg = <<20013, 228, 256>>
    /\ res = <<45, 228, 0>>

IsChar(tk, c) == tk.tok = "char" /\ tk.val = c

NewlinePositions(block) == {k \in 1..Len(block) : IsChar(block[k], "\n")}

NewlineCount(block) == Cardinality(NewlinePositions(block))

\* position of the n-th newline of a block (0 for n = 0, one past the end after the last)
NthNewline(block, n) ==
    IF n = 0 THEN 0
    ELSE IF n > NewlineCount(block) THEN Len(block) + 1
    ELSE CHOOSE p \in NewlinePositions(block) :
             Cardinality({q \in NewlinePositions(block) : q <= p}) = n

\* the i-th line (1-based) of a block: what stands between two newlines
LineOf(block, i) ==
    SubSeq(block, NthNewline(block, i - 1) + 1, NthNewline(block, i) - 1)

\* seg is: decimal i, =""1", the rendered line of the athlete, a closing quote
IsNumberedLine(seg, i, athlete) ==
    LET d == Len(seg) - 8
    IN /\ d >= 1
       /\ \A k \in 1..d : seg[k].tok = "char" /\ IsAsciiDigit(seg[k].val)
       /\ IsDecimalOf([k \in 1..d |-> seg[k].val], i)
       /\ IsChar(seg[d + 1], "=")
       /\ IsChar(seg[d + 2], "\"")
       /\ IsChar(seg[d + 3], "\"")
       /\ IsChar(seg[d + 4], "1")
       /\ IsChar(seg[d + 5], "\"")
       /\ IsChar(seg[d + 6], ",")
       /\ seg[d + 7].tok = "athlete"
       /\ seg[d + 7].val = Athlete_render(athlete)
       /\ IsChar(seg[d + 8], "\"")

\* C18: the athlete-list block of n >= 1 athletes has n - 1 newlines and does not end
\* with one, and its i-th line is the number i, =""1", the i-th athlete's rendered line
\* and a closing quote, for every i in 1..n.
C18_AthleteListBlock ==
    (op = "render" /\ Len(arg) >= 1) =>
        /\ NewlineCount(res) = Len(arg) - 1
        /\ ~IsChar(res[Len(res)], "\n")
        /\ \A i \in 1..Len(arg) : IsNumberedLine(LineOf(res, i), i, arg[i])

C18_Witness ==
    /\ op = "render"
    /\ Len(arg) = 10
    /\ arg[1] # arg[10]
    /\ NewlineCount(res) = 9
    /\ IsChar(res[1], "1")
    /\ IsChar(res[Len(res)], "\"")

\* s is the date d written dd.mm.yyyy
IsDateText(s, d) ==
    /\ Len(s) = 10
    /\ s[3] = "." /\ s[6] = "."
    /\ AllDigits(SubSeq(s, 1, 2)) /\ DecimalValue(SubSeq(s, 1, 2)) = d.day
    /\ AllDigits(SubSeq(s, 4, 5)) /\ DecimalValue(SubSeq(s, 4, 5)) = d.month
    /\ AllDigits(SubSeq(s, 7, 10)) /\ DecimalValue(SubSeq(s, 7, 10)) = d.year

\* C19: a rendered tournament is, in this order: sender block, event name, date as
\* dd.mm.yyyy, place, age category, the bracket code twice, club block, athlete-list
\* block, athlete count; the count is the number of athletes of the tournament, which
\* is the number of lines of the athlete-list block.
C19_TournamentRenderOrder ==
    op = "Tournament::render" =>
        /\ Len(res) = 10
        /\ res[1] = Sender_render(arg.club.sender, arg.club.name)
        /\ res[2] = arg.name
        /\ IsDateText(res[3], arg.date)
        /\ res[4] = arg.place
        /\ res[5] = arg.age_category
        /\ res[6] = BracketCode(arg.gender_category)
        /\ res[7] = BracketCode(arg.gender_category)
        /\ res[8] = Club_render(arg.club)
        /\ res[9] = render(arg.athletes)
        /\ IsDecimalOf(res[10], Len(arg.athletes))
        /\ NewlineCount(res[9]) + 1 = Len(arg.athletes)

C19_Witness ==
    /\ op = "Tournament::render"
    /\ arg.gender_category = "Female"
    /\ Len(arg.athletes) = 10
    /\ res[3] = <<"0", "9", ".", "1", "0", ".", "2", "0", "3", "0">>
    /\ res[6] = "w" /\ res[7] = "w"
    /\ res[10] = <<"1", "0">>

(***************************************************************************)
(* One call of registering_athletes_to_tournaments on a bounded input.     *)
(***************************************************************************)
RegisteringAthlete_new(given_name, sur_name, belt, weight_category, birth_year, gender, age) ==
    [given_name |-> given_name, sur_name |-> sur_name, belt |-> belt,
     weight_category |-> weight_category, birth_year |-> birth_year,
     gender_category |-> gender, gender |-> gender, age_category |-> age]

RegisteringAthlete_from_athlete(athlete) ==
    RegisteringAthlete_new(athlete.given_name, athlete.sur_name, athlete.belt,
        WeightCategory_to_string(athlete.weight_category), athlete.birth_year,
        athlete.gender, "")

\* the two athletes of the store that registrations are made from
StoredAthletes ==
    {Athlete_new("Anna", "Alt", 2005, "Kyu3", WeightCategory_default, "Female"),
     Athlete_new("Max", "Mustermann", 1999, "Dan1", WeightCategory_default, "Mixed")}

RegWeightStrings == {<<"-", "7", "3">>, <<"a", "b", "c">>}

RegAgeCategories == {"U18", "U21", "u18"}

RegBrackets == {"Mixed", "Male"}

\* a registration as the registering table leaves it: made from an athlete, then
\* its bracket chosen and its age category and weight string typed in
RegisteringAthletes ==
    {[RegisteringAthlete_from_athlete(a) EXCEPT
          !.gender_category = g, !.age_category = age, !.weight_category = w] :
        a \in StoredAthletes, w \in RegWeightStrings, age \in RegAgeCategories,
        g \in RegBrackets}

InitBucket ==
    /\ PureIdle
    /\ AppIdle
    /\ IoIdle
    /\ registering_athletes \in UNION {[1..n -> RegisteringAthletes] : n \in 0..MaxRegs}
    /\ name = "Cup"
    /\ date = [day |-> 1, month |-> 3, year |-> 2025]
    /\ place = "Hall"
    /\ club = [name |-> "Judo Club", number |-> 1234567]
    /\ tournament_meta = <<>>
    /\ ret = <<>>
    /\ pos = 0
    /\ pc = "loop"
    /\ result = None

NextBucket ==
    \/ BucketAppend
    \/ BucketCreate
    \/ BucketParseFail
    \/ BucketReturn

SpecBucket == InitBucket /\ [][NextBucket]_vars

(***************************************************************************)
(* Graduate messages handled on a loaded athlete list.                     *)
(***************************************************************************)
LoadedAthletes ==
    {Athlete_new("Anna", "Alt", 2005, b, WeightCategory_default, "Female") : b \in Belt}

InitGraduate ==
    /\ PureIdle
    /\ BucketIdle
    /\ IoIdle
    /\ athletes \in UNION {[1..n -> LoadedAthletes] : n \in 1..MaxAthletes}
    /\ watched \in 1..Len(athletes)
    /\ graduations = 0
    /\ UsageIdle

NextGraduate == \E index \in 1..MaxAthletes : Graduate(index)

SpecGraduate == InitGraduate /\ [][NextGraduate]_vars

(***************************************************************************)
(* The registering table: pending registrations are added from the athlete *)
(* store, edited in place and deleted.                                     *)
(***************************************************************************)
callVars == <<name, date, place, club, tournament_meta, ret, pos, pc, result>>

\* brackets offered for an own gender, in the order of the dropdown
LEGAL_GENDER_CATEGORIES(gender) ==
    CASE gender = "Female" -> <<"Female", "Mixed">>
      [] gender = "Male" -> <<"Male", "Mixed">>
      [] gender = "Mixed" -> <<"Female", "Male", "Mixed">>

PendingStore ==
    <<Athlete_new("Anna", "Alt", 2005, "Kyu3", WeightCategory_default, "Female"),
      Athlete_new("Max", "Mustermann", 1999, "Dan1", WeightCategory_default, "Mixed"),
      Athlete_new("Tom", "Berg", 2001, "Kyu1", WeightCategory_default, "Male")>>

PendingAgeTexts == {"U18", "U21"}

PendingWeightTexts == {<<"-", "7", "3">>, <<"a", "b", "c">>}

\* the add button of a row of the athlete table
RegisteringAdd(index) ==
    /\ pc = "idle"
    /\ index \in 1..Len(athletes)
    /\ Len(registering_athletes) < MaxPending
    /\ registering_athletes' =
           Append(registering_athletes, RegisteringAthlete_from_athlete(athletes[index]))
    /\ UNCHANGED <<callVars, pureVars, appVars, ioVars>>

\* the bracket combo box of a row: ui.selectable_value over Mixed, Female, Male
SelectGenderCategory(index, gender_category) ==
    /\ pc = "idle"
    /\ index \in 1..Len(registering_athletes)
    /\ gender_category \in GenderCategory
    /\ registering_athletes' =
           [registering_athletes EXCEPT ![index].gender_category = gender_category]
    /\ UNCHANGED <<callVars, pureVars, appVars, ioVars>>

\* RegisteringMessage::GenderCategory(selection, index), selection counted from 1
RegisteringMessage_GenderCategory(selection, index) ==
    /\ pc = "idle"
    /\ index \in 1..Len(registering_athletes)
    /\ LET gender == registering_athletes[index].gender
       IN /\ selection \in 1..Len(LEGAL_GENDER_CATEGORIES(gender))
          /\ registering_athletes' = [registering_athletes EXCEPT
                 ![index].gender_category = LEGAL_GENDER_CATEGORIES(gender)[selection]]
    /\ UNCHANGED <<callVars, pureVars, appVars, ioVars>>

\* the age-category text field of a row
EditAgeCategory(index, text) ==
    /\ pc = "idle"
    /\ index \in 1..Len(registering_athletes)
    /\ registering_athletes' = [registering_athletes EXCEPT ![index].age_category = text]
    /\ UNCHANGED <<callVars, pureVars, appVars, ioVars>>

\* the weight-category text field of a row
EditWeightCategory(index, text) ==
    /\ pc = "idle"
    /\ index \in 1..Len(registering_athletes)
    /\ registering_athletes' = [registering_athletes EXCEPT ![index].weight_category = text]
    /\ UNCHANGED <<callVars, pureVars, appVars, ioVars>>

\* the delete button of a row: app.registering.athletes.remove(index)
RegisteringDelete(index) ==
    /\ pc = "idle"
    /\ index \in 1..Len(registering_athletes)
    /\ registering_athletes' =
           SubSeq(registering_athletes, 1, index - 1)
               \o SubSeq(registering_athletes, index + 1, Len(registering_athletes))
    /\ UNCHANGED <<callVars, pureVars, appVars, ioVars>>

InitPending ==
    /\ PureIdle
    /\ BucketIdle
    /\ IoIdle
    /\ athletes = PendingStore
    /\ watched = 0
    /\ graduations = 0
    /\ UsageIdle

NextPending ==
    \/ \E index \in 1..Len(PendingStore) : RegisteringAdd(index)
    \/ \E index \in 1..MaxPending + 1, g \in GenderCategory : SelectGenderCategory(index, g)
    \/ \E index \in 1..MaxPending + 1, selection \in 1..3 :
           RegisteringMessage_GenderCategory(selection, index)
    \/ \E index \in 1..MaxPending + 1, text \in PendingAgeTexts : EditAgeCategory(index, text)
    \/ \E index \in 1..MaxPending + 1, text \in PendingWeightTexts :
           EditWeightCategory(index, text)
    \/ \E index \in 1..MaxPending + 1 : RegisteringDelete(index)

SpecPending == InitPending /\ [][NextPending]_vars

(***************************************************************************)
(* The register button: the bucketing loop, then write_tournaments, which  *)
(* writes one file per tournament.  Opening a file and writing to it may   *)
(* each fail; a file is what was rendered into it and whether write_all    *)
(* completed.                                                              *)
(***************************************************************************)
\* s.chars() of the texts the model uses
chars_of(s) ==
    CASE s = "" -> <<>>
      [] s = "Cup" -> <<"C", "u", "p">>
      [] s = "a/b" -> <<"a", "/", "b">>
      [] s = "U18" -> <<"U", "1", "8">>
      [] s = "U21" -> <<"U", "2", "1">>
      [] s = "m" -> <<"m">>
      [] s = "w" -> <<"w">>
      [] s = "g" -> <<"g">>

\* PathBuf::join: an absolute path replaces the base, a relative one is appended
PathBuf_join(base, path) ==
    IF starts_with(path, "/") THEN path
    ELSE IF base = <<>> \/ base[Len(base)] = "/" THEN base \o path
    ELSE base \o <<"/">> \o path

\* the bracket code left out of the file name
file_name_without_bracket(tournament) ==
    chars_of(tournament.name) \o chars_of(tournament.age_category)
        \o <<".", "d", "m", "4">>

\* format!("{}{} ({}).dm4", name, age category, bracket code)
file_name(tournament) ==
    chars_of(tournament.name) \o chars_of(tournament.age_category) \o <<" ", "(">>
        \o chars_of(GenderCategory_render(tournament.gender_category))
        \o <<")", ".", "d", "m", "4">>

tournament_path(tournament_base, tournament) ==
    PathBuf_join(tournament_base, file_name(tournament))

IoCall(call, path, ok) == [call |-> call, path |-> path, ok |-> ok]

FileOf(tournament, complete) ==
    [document |-> Tournament_render(tournament), complete |-> complete]

\* the register button is clicked: registering_athletes_to_tournaments is entered
Register ==
    /\ pc = "idle"
    /\ registers < MaxRegisters
    /\ registers' = registers + 1
    /\ pc' = "loop"
    /\ pos' = 0
    /\ ret' = <<>>
    /\ tournament_meta' = <<>>
    /\ result' = None
    /\ io_log' = <<>>
    /\ wpos' = 0
    /\ UNCHANGED <<registering_athletes, name, date, place, club, config, files, written,
                   pureVars, appVars>>

\* the rows that did parse written all the same
RegisterInvalidWeightCategoryWritesRest ==
    /\ pc = "returned"
    /\ result = None
    /\ result' = Some(ret)
    /\ UNCHANGED <<registering_athletes, name, date, place, club, tournament_meta, ret, pos,
                   pc, config, files, io_log, wpos, written, registers, pureVars, appVars>>

\* tournaments is None: Written::InvalidWeightCategory, write_tournaments is not called
RegisterInvalidWeightCategory ==
    /\ pc = "returned"
    /\ result = None
    /\ written' = "InvalidWeightCategory"
    /\ pc' = "idle"
    /\ UNCHANGED <<registering_athletes, name, date, place, club, tournament_meta, ret, pos,
                   result, config, files, io_log, wpos, registers, pureVars, appVars>>

\* the configuration looked up before the list is inspected
WriteTournamentsEmptyAfterConfig ==
    /\ pc = "returned"
    /\ result # None
    /\ result[1] = <<>>
    /\ LET ok == config # None /\ config[1].is_str
       IN /\ io_log' = Append(io_log, IoCall("get_config", <<>>, ok))
          /\ written' = IF ok THEN "Successful" ELSE "Error"
    /\ pc' = "idle"
    /\ UNCHANGED <<registering_athletes, name, date, place, club, tournament_meta, ret, pos,
                   result, config, files, wpos, registers, pureVars, appVars>>

\* write_tournaments: if tournaments.is_empty() { return Ok(()) }
WriteTournamentsEmpty ==
    /\ pc = "returned"
    /\ result # None
    /\ result[1] = <<>>
    /\ written' = "Successful"
    /\ pc' = "idle"
    /\ UNCHANGED <<registering_athletes, name, date, place, club, tournament_meta, ret, pos,
                   result, config, files, io_log, wpos, registers, pureVars, appVars>>

\* write_tournaments: get_config("tournament-basedir")? and .as_str().ok_or(..)?
WriteTournamentsGetConfig ==
    /\ pc = "returned"
    /\ result # None
    /\ result[1] # <<>>
    /\ LET ok == config # None /\ config[1].is_str
       IN /\ io_log' = Append(io_log, IoCall("get_config", <<>>, ok))
          /\ pc' = IF ok THEN "write" ELSE "idle"
          /\ written' = IF ok THEN written ELSE "Error"
    /\ UNCHANGED <<registering_athletes, name, date, place, club, tournament_meta, ret, pos,
                   result, config, files, wpos, registers, pureVars, appVars>>

Writing == pc = "write" /\ wpos < Len(result[1])

\* the base directory read from the application's configuration while writing
WriteTournament_live_basedir ==
    /\ Writing
    /\ LET tournament == result[1][wpos + 1]
           path == tournament_path(configs.tournament_basedir, tournament)
       IN /\ files' = [p \in DOMAIN files \cup {path} |->
                          IF p = path THEN FileOf(tournament, TRUE) ELSE files[p]]
          /\ io_log' = io_log \o <<IoCall("open", path, TRUE), IoCall("write_all", path, TRUE)>>
    /\ wpos' = wpos + 1
    /\ UNCHANGED <<registering_athletes, name, date, place, club, tournament_meta, ret, pos,
                   pc, result, config, written, registers, pureVars, appVars>>

\* write_tournament: open with create and truncate, then write_all, both succeed
WriteTournament ==
    /\ Writing
    /\ LET tournament == result[1][wpos + 1]
           path == tournament_path(config[1].str, tournament)
       IN /\ files' = [p \in DOMAIN files \cup {path} |->
                          IF p = path THEN FileOf(tournament, TRUE) ELSE files[p]]
          /\ io_log' = io_log \o <<IoCall("open", path, TRUE), IoCall("write_all", path, TRUE)>>
    /\ wpos' = wpos + 1
    /\ UNCHANGED <<registering_athletes, name, date, place, club, tournament_meta, ret, pos,
                   pc, result, config, written, registers, pureVars, appVars>>

\* the error of open logged and the loop continued with the next tournament
WriteTournamentOpenFailsContinue ==
    /\ Writing
    /\ LET tournament == result[1][wpos + 1]
           path == tournament_path(config[1].str, tournament)
       IN io_log' = Append(io_log, IoCall("open", path, FALSE))
    /\ wpos' = wpos + 1
    /\ UNCHANGED <<registering_athletes, name, date, place, club, tournament_meta, ret, pos,
                   pc, result, config, files, written, registers, pureVars, appVars>>

\* write_tournament: File::options()...open(path)? fails, the error is returned
WriteTournamentOpenFails ==
    /\ Writing
    /\ LET tournament == result[1][wpos + 1]
           path == tournament_path(config[1].str, tournament)
       IN io_log' = Append(io_log, IoCall("open", path, FALSE))
    /\ written' = "Error"
    /\ pc' = "idle"
    /\ UNCHANGED <<registering_athletes, name, date, place, club, tournament_meta, ret, pos,
                   result, config, files, wpos, registers, pureVars, appVars>>

\* write_tournament: the file is created or truncated, then write_all(..)? fails
WriteTournamentWriteFails ==
    /\ Writing
    /\ LET tournament == result[1][wpos + 1]
           path == tournament_path(config[1].str, tournament)
       IN /\ files' = [p \in DOMAIN files \cup {path} |->
                          IF p = path THEN FileOf(tournament, FALSE) ELSE files[p]]
          /\ io_log' = io_log \o <<IoCall("open", path, TRUE), IoCall("write_all", path, FALSE)>>
    /\ written' = "Error"
    /\ pc' = "idle"
    /\ UNCHANGED <<registering_athletes, name, date, place, club, tournament_meta, ret, pos,
                   result, config, wpos, registers, pureVars, appVars>>

\* the pending registrations cleared once everything is written
WriteTournamentsOkClears ==
    /\ pc = "write"
    /\ wpos = Len(result[1])
    /\ written' = "Successful"
    /\ pc' = "idle"
    /\ registering_athletes' = <<>>
    /\ UNCHANGED <<name, date, place, club, tournament_meta, ret, pos,
                   result, config, files, io_log, wpos, registers, pureVars, appVars>>

\* write_tournaments: Ok(()) after the loop, Written::Successful
WriteTournamentsOk ==
    /\ pc = "write"
    /\ wpos = Len(result[1])
    /\ written' = "Successful"
    /\ pc' = "idle"
    /\ UNCHANGED <<registering_athletes, name, date, place, club, tournament_meta, ret, pos,
                   result, config, files, io_log, wpos, registers, pureVars, appVars>>

RegisterAthlete == Athlete_new("Anna", "Alt", 2005, "Kyu3", WeightCategory_default, "Female")

\* rows of the registering table: bracket, age category and weight string edited
RegisterRows ==
    {[RegisteringAthlete_from_athlete(RegisterAthlete) EXCEPT
          !.gender_category = key[2], !.age_category = key[1], !.weight_category = w] :
        key \in {<<"U18", "Mixed">>, <<"U21", "Mixed">>, <<"U18", "Female">>},
        w \in PendingWeightTexts}

RegisterNames == {"Cup", "a/b"}

\* "tournament-basedir" of the configuration file: absent, not a string, a directory
RegisterConfigs ==
    {None, Some([is_str |-> FALSE, str |-> <<>>]),
     Some([is_str |-> TRUE, str |-> <<"/", "o", "u", "t">>])}

\* the base directory when the application starts: empty, or holding an earlier output
RegisterDisks ==
    {<<>>,
     [p \in {<<"/", "o", "u", "t", "/", "C", "u", "p", "U", "1", "8", " ", "(", "g", ")",
               ".", "d", "m", "4">>} |-> [document |-> <<>>, complete |-> TRUE]]}

InitRegister ==
    /\ PureIdle
    /\ AppIdle
    /\ registering_athletes \in UNION {[1..n -> RegisterRows] : n \in 0..MaxRegs}
    /\ name \in RegisterNames
    /\ date = [day |-> 1, month |-> 3, year |-> 2025]
    /\ place = "Hall"
    /\ club = RenderClub
    /\ tournament_meta = <<>>
    /\ ret = <<>>
    /\ pos = 0
    /\ pc = "idle"
    /\ result = None
    /\ config \in RegisterConfigs
    /\ files \in RegisterDisks
    /\ io_log = <<>>
    /\ wpos = 0
    /\ written = "none"
    /\ registers = 0

NextRegister ==
    \/ Register
    \/ BucketAppend
    \/ BucketCreate
    \/ BucketParseFail
    \/ BucketReturn
    \/ RegisterInvalidWeightCategory
    \/ WriteTournamentsEmpty
    \/ WriteTournamentsGetConfig
    \/ WriteTournament
    \/ WriteTournamentOpenFails
    \/ WriteTournamentWriteFails
    \/ WriteTournamentsOk

SpecRegister == InitRegister /\ [][NextRegister]_vars

(***************************************************************************)
(* Claims about registering_athletes_to_tournaments.                       *)
(***************************************************************************)
Returned == pc = "returned"

\* the pair a registration is grouped by: its age-category string and its bracket
RegKey(r) == <<r.age_category, r.gender_category>>

ParseFails(registering_athlete) ==
    WeightCategory_from_str(registering_athlete.weight_category) = None

SomeWeightFails == \E k \in 1..Len(registering_athletes) : ParseFails(registering_athletes[k])

\* C1: the call is all-or-nothing: it returns None whenever at least one
\* registration's weight-class string fails WeightCategory::from_str, at any
\* position and in a new or an existing bucket, and Some(list) only when every
\* weight string parses.
C1_AllOrNothing ==
    Returned => ((result = None) <=> SomeWeightFails)

\* the last of three registrations fails, in a bucket that already exists
C1_Witness ==
    /\ Returned
    /\ result = None
    /\ Len(registering_athletes) = 3
    /\ pos = 2
    /\ ParseFails(registering_athletes[3])
    /\ RegKey(registering_athletes[3]) \in DOMAIN tournament_meta
    /\ Len(ret) = 2

TournamentKey(t) == <<t.age_category, t.gender_category>>

\* position of the first registration of the input that carries key
FirstPosition(key) ==
    CHOOSE p \in 1..Len(registering_athletes) :
        /\ RegKey(registering_athletes[p]) = key
        /\ \A q \in 1..(p - 1) : RegKey(registering_athletes[q]) # key

\* what identifies the registration an athlete was built from
Person(r) ==
    [given_name |-> r.given_name, sur_name |-> r.sur_name, belt |-> r.belt,
     birth_year |-> r.birth_year]

HasKey(key, r) == RegKey(r) = key

PersonsOf(seq) == [k \in 1..Len(seq) |-> Person(seq[k])]

\* the registrations of the input that carry key, in input order
RECURSIVE RegistrationsWith(_, _)
RegistrationsWith(key, n) ==
    IF n = 0 THEN <<>>
    ELSE IF HasKey(key, registering_athletes[n])
         THEN Append(RegistrationsWith(key, n - 1), registering_athletes[n])
         ELSE RegistrationsWith(key, n - 1)

\* C2: for an all-valid input the tournaments are ordered by the input position of
\* the first registration carrying each key, and inside each tournament the
\* athletes appear in the relative order of their registrations in the input.
C2_OrderPreserved ==
    (Returned /\ result # None) =>
        LET tournaments == result[1]
        IN /\ \A i, j \in 1..Len(tournaments) :
                  i < j => FirstPosition(TournamentKey(tournaments[i]))
                               < FirstPosition(TournamentKey(tournaments[j]))
           /\ \A i \in 1..Len(tournaments) :
                  PersonsOf(tournaments[i].athletes) =
                      PersonsOf(RegistrationsWith(TournamentKey(tournaments[i]),
                                                  Len(registering_athletes)))

\* Max, Anna, Max in one bucket and a second bucket opened in between
C2_Witness ==
    /\ Returned
    /\ result # None
    /\ Len(result[1]) = 2
    /\ Len(registering_athletes) = 3
    /\ Len(result[1][1].athletes) = 2
    /\ result[1][1].athletes[1].given_name = "Max"
    /\ result[1][1].athletes[2].given_name = "Anna"
    /\ RegKey(registering_athletes[2]) = TournamentKey(result[1][2])

InputKeys == {RegKey(registering_athletes[k]) : k \in 1..Len(registering_athletes)}

RECURSIVE SumAthletes(_, _)
SumAthletes(tournaments, n) ==
    IF n = 0 THEN 0 ELSE SumAthletes(tournaments, n - 1) + Len(tournaments[n].athletes)

\* C3: for an all-valid input, bucketing is a partition by exact key equality:
\* the number of tournaments equals the number of distinct (age category string,
\* bracket) keys, no two tournaments share a key, each tournament holds exactly the
\* registrations whose key equals its own, and the athlete counts sum to the
\* number of registrations.
C3_PartitionByKey ==
    (Returned /\ result # None) =>
        LET tournaments == result[1]
        IN /\ Len(tournaments) = Cardinality(InputKeys)
           /\ \A i, j \in 1..Len(tournaments) :
                  i # j => TournamentKey(tournaments[i]) # TournamentKey(tournaments[j])
           /\ \A i \in 1..Len(tournaments) :
                  /\ TournamentKey(tournaments[i]) \in InputKeys
                  /\ Len(tournaments[i].athletes) =
                         Cardinality({k \in 1..Len(registering_athletes) :
                             /\ registering_athletes[k].age_category
                                    = tournaments[i].age_category
                             /\ registering_athletes[k].gender_category
                                    = tournaments[i].gender_category})
           /\ SumAthletes(tournaments, Len(tournaments)) = Len(registering_athletes)

\* (U18, Mixed), (U18, Mixed), (U21, Male) gives [U18/Mixed] with two athletes, then
\* [U21/Male] with one
C3_Witness ==
    /\ Returned
    /\ result # None
    /\ Len(registering_athletes) = 3
    /\ RegKey(registering_athletes[1]) = <<"U18", "Mixed">>
    /\ RegKey(registering_athletes[2]) = <<"U18", "Mixed">>
    /\ RegKey(registering_athletes[3]) = <<"U21", "Male">>
    /\ Len(result[1]) = 2
    /\ TournamentKey(result[1][1]) = <<"U18", "Mixed">>
    /\ Len(result[1][1].athletes) = 2
    /\ TournamentKey(result[1][2]) = <<"U21", "Male">>
    /\ Len(result[1][2].athletes) = 1

\* C4: every athlete placed in a tournament, the first one as well as one appended
\* later, is built with the registration's bracket (gender_category), so every
\* athlete of a tournament has gender equal to the tournament's bracket, also
\* when the registration's own gender differs from its bracket.
C4_AthleteGenderIsBracket ==
    (Returned /\ result # None) =>
        \A i \in 1..Len(result[1]) :
            \A k \in 1..Len(result[1][i].athletes) :
                result[1][i].athletes[k].gender = result[1][i].gender_category

(***************************************************************************)
(* Claims about Graduate.                                                  *)
(***************************************************************************)
Min(a, b) == IF a < b THEN a ELSE b

RankNumber(athlete) == Belt_to_number(athlete.belt)

\* C10: Belt::inc moves exactly one step up and saturates at Dan10:
\* to_number(inc(r)) = min(to_number(r) + 1, 19); so under any sequence of Graduate
\* messages an athlete's rank ordinal never decreases, is Dan10 after at most 18
\* graduations from any start, and then stays Dan10.
C10_GraduateSaturates ==
    /\ [][/\ graduations' = graduations + 1 =>
                 RankNumber(athletes'[watched]) = Min(RankNumber(athletes[watched]) + 1, 19)
          /\ graduations' = graduations => athletes'[watched] = athletes[watched]
          /\ \A i \in 1..Len(athletes) :
                 /\ RankNumber(athletes'[i]) >= RankNumber(athletes[i])
                 /\ RankNumber(athletes'[i]) <= RankNumber(athletes[i]) + 1
                 /\ athletes[i].belt = "Dan10" => athletes'[i].belt = "Dan10"]_vars
    /\ [](graduations >= 18 => athletes[watched].belt = "Dan10")

\* an athlete that reached Dan10 and was graduated once more, beside one never graduated
C10_Witness ==
    /\ Len(athletes) = 2
    /\ watched = 2
    /\ athletes[2].belt = "Dan10"
    /\ graduations = 19
    /\ athletes[1].belt = "Kyu9"

(***************************************************************************)
(* Claims about the registering table.                                     *)
(***************************************************************************)
\* the legal-transition table: brackets an own gender may enter
LegalBrackets(gender) ==
    IF gender = "Female" THEN {"Female", "Mixed"}
    ELSE IF gender = "Male" THEN {"Male", "Mixed"}
    ELSE {"Female", "Male", "Mixed"}

\* own gender of the stored athlete a registration was made from
OwnGender(r) ==
    LET k == CHOOSE k \in 1..Len(athletes) :
                 /\ athletes[k].given_name = r.given_name
                 /\ athletes[k].sur_name = r.sur_name
    IN athletes[k].gender

\* C12: every pending registration's bracket is one of the legal brackets of its own
\* gender, and its own gender is still that of the athlete it was made from.
C12_BracketLegal ==
    \A k \in 1..Len(registering_athletes) :
        /\ registering_athletes[k].gender = OwnGender(registering_athletes[k])
        /\ registering_athletes[k].gender_category
               \in LegalBrackets(registering_athletes[k].gender)

(***************************************************************************)
(* Claims about the register button and write_tournaments.                 *)
(***************************************************************************)
IsOpen(e) == e.call = "open"

\* the open calls of the Register being handled, in order
OpenCalls == SelectSeq(io_log, IsOpen)

\* the tournaments handed to write_tournaments (none when bucketing failed)
Tournaments == IF result = None THEN <<>> ELSE result[1]

\* characters that may not appear in a file name
IllegalPathChars == {"/", "\\", ":", "*", "?", "\"", "<", ">", "|"}

Sanitized(text) ==
    [k \in 1..Len(text) |-> IF text[k] \in IllegalPathChars THEN "_" ELSE text[k]]

\* base/ + sanitize(event name) + sanitize(age category) + " (" + code + ").dm4"
SanitizedPath(base, t) ==
    base \o <<"/">> \o Sanitized(chars_of(t.name)) \o Sanitized(chars_of(t.age_category))
        \o <<" ", "(", BracketCode(t.gender_category), ")", ".", "d", "m", "4">>

\* C14: the j-th file write_tournaments opens is at the base directory joined with the
\* sanitized event name, the sanitized age category, " (", the bracket code and ").dm4"
\* of the j-th tournament, so no illegal path character of name or age category is in
\* the file name.
C14_SanitizedPath ==
    \A j \in 1..Len(OpenCalls) :
        OpenCalls[j].path = SanitizedPath(config[1].str, Tournaments[j])

\* the path of a tournament's file as write_tournaments computes it
PathOf(j) == tournament_path(config[1].str, Tournaments[j])

\* C15: write_tournaments opens the files in list order, each at most once; only the
\* last I/O call made can have failed; when a call failed on file k, files 1..k-1 hold
\* their complete documents, no later file was opened and the outcome is the error;
\* the outcome is success only when all n files hold their complete documents.
C15_FailFastNoRollback ==
    /\ Len(OpenCalls) <= Len(Tournaments)
    /\ \A j \in 1..Len(OpenCalls) : OpenCalls[j].path = PathOf(j)
    /\ \A k \in 1..Len(io_log) - 1 : io_log[k].ok
    /\ (io_log # <<>> /\ ~io_log[Len(io_log)].ok) =>
           /\ pc = "idle"
           /\ written = "Error"
           /\ \A j \in 1..Len(OpenCalls) - 1 :
                  PathOf(j) \in DOMAIN files /\ files[PathOf(j)] = FileOf(Tournaments[j], TRUE)
    /\ (pc = "idle" /\ registers >= 1 /\ written = "Successful") =>
           /\ Len(OpenCalls) = Len(Tournaments)
           /\ \A k \in 1..Len(io_log) : io_log[k].ok
           /\ \A j \in 1..Len(Tournaments) :
                  PathOf(j) \in DOMAIN files /\ files[PathOf(j)] = FileOf(Tournaments[j], TRUE)

\* the write of file 2 of 3 failed: file 1 is complete, file 3 was never opened
C15_Witness ==
    /\ pc = "idle"
    /\ written = "Error"
    /\ Len(Tournaments) = 3
    /\ Len(OpenCalls) = 2
    /\ io_log[Len(io_log)].call = "write_all"
    /\ files[PathOf(1)].complete
    /\ ~files[PathOf(2)].complete
    /\ PathOf(3) \notin DOMAIN files

\* C16: write_tournaments on an empty list returns Ok at once: the outcome is success,
\* no configuration lookup and no file operation is made and no file changes, whatever
\* the base-directory configuration is.
C16_EmptyListNoIo ==
    [][(pc = "returned" /\ result = Some(<<>>)) =>
          /\ pc' = "idle"
          /\ written' = "Successful"
          /\ io_log' = <<>>
          /\ files' = files]_vars

C16_Witness ==
    /\ pc = "idle"
    /\ registers = 1
    /\ result = Some(<<>>)
    /\ config = None
    /\ written = "Successful"
    /\ io_log = <<>>
    /\ files # <<>>

InRegister == pc \in {"loop", "returned", "write"}

\* C17: while a Register is handled whose pending list holds a weight string that does
\* not parse, write_tournaments is never entered, no I/O call is made, no file changes,
\* and the Register ends with the invalid-weight-category outcome.
C17_InvalidWeightAbortsBatch ==
    [][(InRegister /\ SomeWeightFails) =>
          /\ pc' \in {"loop", "returned", "idle"}
          /\ io_log' = <<>>
          /\ files' = files
          /\ pc' = "idle" => written' = "InvalidWeightCategory"]_vars

\* two valid rows, then an invalid one, and a file on disk from an earlier run
C17_Witness ==
    /\ pc = "idle"
    /\ registers = 1
    /\ written = "InvalidWeightCategory"
    /\ Len(registering_athletes) = 3
    /\ ~ParseFails(registering_athletes[1])
    /\ ~ParseFails(registering_athletes[2])
    /\ ParseFails(registering_athletes[3])
    /\ files # <<>>
    /\ io_log = <<>>

MaxAdded == 2

\* Vec::remove(index) on a valid index
Vec_remove(v, index) == SubSeq(v, 1, index - 1) \o SubSeq(v, index + 1, Len(v))

IsWhitespace(c) == c \in {" ", "\t", "\n"}

IsNotWhitespace(c) == ~IsWhitespace(c)

\* the text fields for weight categories: whitespace removed, then empty, or a sign
\* or a digit followed by numeric characters only; None when the input is ignored
trimmed_weight_input(weight_category) ==
    LET trimmed == SelectSeq(weight_category, IsNotWhitespace)
    IN IF \/ trimmed = <<>>
          \/ /\ trimmed[1] \in {"+", "-"} \/ IsAsciiDigit(trimmed[1])
             /\ \A k \in 2..Len(trimmed) : IsAsciiDigit(trimmed[k])
       THEN Some(trimmed)
       ELSE None

\* RegisteringAthlete::from_athlete(&self.athletes[selection], selection)
RegisteringAthlete_from_athlete_at(athlete, index) ==
    LET r == RegisteringAthlete_from_athlete(athlete)
    IN [f \in DOMAIN r \cup {"index"} |-> IF f = "index" THEN index ELSE r[f]]

\* the athlete the adding form holds when its k-th athlete is added
AddingForm(k) == [given_name |-> "Anna", sur_name |-> "Alt", year |-> 2000 + k]

AddingWeightTexts == {<<"-", "7", "3">>, <<>>}

EditWeightTexts == {<<"+", " ", "9", "0">>, <<>>, <<"7">>, <<"a">>}

RegisteringWeightTexts == {<<"-", "7", "3">>, <<>>, <<"x">>}

\* the athlete is appended without an entry for the editor
AddingMessage_Add_without_editor_entry(weight_category) ==
    /\ panicked = "none"
    /\ added < MaxAdded
    /\ LET parsed == WeightCategory_from_str(weight_category)
           form == AddingForm(added + 1)
       IN IF parsed = None
          THEN UNCHANGED <<athletes, added>>
          ELSE /\ athletes' = Append(athletes, Athlete_new(form.given_name,
                      form.sur_name, form.year, "Kyu9", parsed[1], "Female"))
               /\ added' = added + 1
    /\ UNCHANGED <<edit_athlete_weight_categories, registering, self_club, configs, panicked,
                   watched, graduations, pureVars, bucketVars, ioVars>>

\* AddingMessage::Add
AddingMessage_Add(weight_category) ==
    /\ panicked = "none"
    /\ added < MaxAdded
    /\ LET parsed == WeightCategory_from_str(weight_category)
           form == AddingForm(added + 1)
       IN IF parsed = None
          THEN UNCHANGED <<athletes, edit_athlete_weight_categories, added>>
          ELSE /\ athletes' = Append(athletes, Athlete_new(form.given_name,
                      form.sur_name, form.year, "Kyu9", parsed[1], "Female"))
               /\ edit_athlete_weight_categories' =
                      Append(edit_athlete_weight_categories,
                             WeightCategory_to_string(parsed[1]))
               /\ added' = added + 1
    /\ UNCHANGED <<registering, self_club, configs, panicked, watched, graduations,
                   pureVars, bucketVars, ioVars>>

\* EditAthleteMessage::WeightCategory(weight_category, index)
EditAthleteMessage_WeightCategory(weight_category, index) ==
    /\ panicked = "none"
    /\ index \in 1..Len(athletes)
    /\ LET trimmed == trimmed_weight_input(weight_category)
       IN IF trimmed = None
          THEN UNCHANGED <<edit_athlete_weight_categories, panicked>>
          ELSE IF index \in 1..Len(edit_athlete_weight_categories)
          THEN /\ edit_athlete_weight_categories' =
                      [edit_athlete_weight_categories EXCEPT ![index] = trimmed[1]]
               /\ UNCHANGED panicked
          ELSE /\ panicked' = "index out of bounds"
               /\ UNCHANGED edit_athlete_weight_categories
    /\ UNCHANGED <<athletes, registering, self_club, configs, added, watched, graduations,
                   pureVars, bucketVars, ioVars>>

\* every athlete gets the default weight class when its string does not parse
EditAthleteMessage_Commit_defaulting ==
    /\ panicked = "none"
    /\ athletes' = [i \in 1..Len(athletes) |->
           IF i <= Len(edit_athlete_weight_categories)
           THEN LET parsed == WeightCategory_from_str(edit_athlete_weight_categories[i])
                IN [athletes[i] EXCEPT !.weight_category =
                       IF parsed = None THEN WeightCategory_default ELSE parsed[1]]
           ELSE athletes[i]]
    /\ UNCHANGED <<usageVars, watched, graduations, pureVars, bucketVars, ioVars>>

\* EditAthleteMessage::Commit: zip of the athletes with the editor's strings
EditAthleteMessage_Commit ==
    /\ panicked = "none"
    /\ athletes' = [i \in 1..Len(athletes) |->
           IF i <= Len(edit_athlete_weight_categories)
           THEN LET parsed == WeightCategory_from_str(edit_athlete_weight_categories[i])
                IN IF parsed = None THEN athletes[i]
                   ELSE [athletes[i] EXCEPT !.weight_category = parsed[1]]
           ELSE athletes[i]]
    /\ UNCHANGED <<usageVars, watched, graduations, pureVars, bucketVars, ioVars>>

\* position of the first pending registration that refers to athlete `index`, or 0
registering_position(index) ==
    LET found == {k \in 1..Len(registering.athletes) : registering.athletes[k].index = index}
    IN IF found = {} THEN 0 ELSE CHOOSE k \in found : \A q \in found : k <= q

\* the pending registration of the athlete removed, the other indices left as they are
DeletingMessage_Delete_without_shift(to_delete) ==
    /\ panicked = "none"
    /\ to_delete \in 1..Len(athletes)
    /\ IF to_delete \in 1..Len(edit_athlete_weight_categories)
       THEN /\ athletes' = Vec_remove(athletes, to_delete)
            /\ edit_athlete_weight_categories' =
                   Vec_remove(edit_athlete_weight_categories, to_delete)
            /\ LET k == registering_position(to_delete)
               IN registering' = [registering EXCEPT !.athletes =
                      IF k = 0 THEN @ ELSE Vec_remove(@, k)]
            /\ UNCHANGED panicked
       ELSE /\ panicked' = "index out of bounds"
            /\ UNCHANGED <<athletes, edit_athlete_weight_categories, registering>>
    /\ UNCHANGED <<self_club, configs, added, watched, graduations,
                   pureVars, bucketVars, ioVars>>

\* DeletingMessage::Delete(to_delete)
DeletingMessage_Delete(to_delete) ==
    /\ panicked = "none"
    /\ to_delete \in 1..Len(athletes)
    /\ IF to_delete \in 1..Len(edit_athlete_weight_categories)
       THEN /\ athletes' = Vec_remove(athletes, to_delete)
            /\ edit_athlete_weight_categories' =
                   Vec_remove(edit_athlete_weight_categories, to_delete)
            /\ LET k == registering_position(to_delete)
                   kept == IF k = 0 THEN registering.athletes
                           ELSE Vec_remove(registering.athletes, k)
               IN registering' = [registering EXCEPT !.athletes =
                      [q \in 1..Len(kept) |->
                          IF kept[q].index > to_delete
                          THEN [kept[q] EXCEPT !.index = @ - 1]
                          ELSE kept[q]]]
            /\ UNCHANGED panicked
       ELSE /\ panicked' = "index out of bounds"
            /\ UNCHANGED <<athletes, edit_athlete_weight_categories, registering>>
    /\ UNCHANGED <<self_club, configs, added, watched, graduations,
                   pureVars, bucketVars, ioVars>>

\* the athlete registered once more although a registration of it is pending
RegisteringMessage_Add_again(selection) ==
    /\ panicked = "none"
    /\ selection \in 1..Len(athletes)
    /\ Len(registering.athletes) < Len(athletes) + 1
    /\ registering' = [registering EXCEPT !.athletes =
           Append(@, RegisteringAthlete_from_athlete_at(athletes[selection], selection))]
    /\ UNCHANGED <<athletes, edit_athlete_weight_categories, self_club, configs, panicked,
                   added, watched, graduations, pureVars, bucketVars, ioVars>>

\* RegisteringMessage::Add(selection)
RegisteringMessage_Add(selection) ==
    /\ panicked = "none"
    /\ selection \in 1..Len(athletes)
    /\ IF \E k \in 1..Len(registering.athletes) : registering.athletes[k].index = selection
       THEN UNCHANGED registering
       ELSE registering' = [registering EXCEPT !.athletes =
                Append(@, RegisteringAthlete_from_athlete_at(athletes[selection], selection))]
    /\ UNCHANGED <<athletes, edit_athlete_weight_categories, self_club, configs, panicked,
                   added, watched, graduations, pureVars, bucketVars, ioVars>>

\* RegisteringMessage::WeightCategory(weight_category, index)
RegisteringMessage_WeightCategory(weight_category, index) ==
    /\ panicked = "none"
    /\ index \in 1..Len(registering.athletes)
    /\ LET trimmed == trimmed_weight_input(weight_category)
       IN IF trimmed = None
          THEN UNCHANGED registering
          ELSE registering' =
                   [registering EXCEPT !.athletes[index].weight_category = trimmed[1]]
    /\ UNCHANGED <<athletes, edit_athlete_weight_categories, self_club, configs, panicked,
                   added, watched, graduations, pureVars, bucketVars, ioVars>>

\* RegisteringMessage::Delete(index)
RegisteringMessage_Delete(index) ==
    /\ panicked = "none"
    /\ index \in 1..Len(registering.athletes)
    /\ registering' = [registering EXCEPT !.athletes = Vec_remove(@, index)]
    /\ UNCHANGED <<athletes, edit_athlete_weight_categories, self_club, configs, panicked,
                   added, watched, graduations, pureVars, bucketVars, ioVars>>

\* the for loop of RegisteringMessage::Register from the k-th pending registration on:
\* a weight string that parses is stored in the athlete and in the editor at once,
\* the first one that does not parse ends the handler
RECURSIVE RegisterLoop(_, _, _)
RegisterLoop(k, athletes_, edits_) ==
    IF k > Len(registering.athletes)
    THEN [outcome |-> "task", athletes |-> athletes_, edits |-> edits_]
    ELSE LET reg_athlete == registering.athletes[k]
             weight_category == WeightCategory_from_str(reg_athlete.weight_category)
         IN IF weight_category = None
            THEN [outcome |-> "invalid_weight_category", athletes |-> athletes_,
                  edits |-> edits_]
            ELSE IF \/ reg_athlete.index \notin 1..Len(athletes_)
                    \/ reg_athlete.index \notin 1..Len(edits_)
            THEN [outcome |-> "panic", athletes |-> athletes_, edits |-> edits_]
            ELSE RegisterLoop(k + 1,
                     [athletes_ EXCEPT ![reg_athlete.index].weight_category =
                         weight_category[1]],
                     [edits_ EXCEPT ![reg_athlete.index] =
                         WeightCategory_to_string(weight_category[1])])

\* the task spawned whatever the weight strings are
RegisteringMessage_Register_unchecked(follow) ==
    /\ panicked = "none"
    /\ follow
    /\ pc = "idle"
    /\ registers < MaxRegisters
    /\ registering_athletes' = registering.athletes
    /\ name' = registering.name
    /\ place' = registering.place
    /\ date' = registering.date
    /\ club' = self_club
    /\ config' = Some([is_str |-> TRUE, str |-> configs.tournament_basedir])
    /\ pc' = "loop"
    /\ pos' = 0
    /\ ret' = <<>>
    /\ tournament_meta' = <<>>
    /\ result' = None
    /\ io_log' = <<>>
    /\ wpos' = 0
    /\ registers' = registers + 1
    /\ UNCHANGED <<athletes, usageVars, watched, graduations, files, written, pureVars>>

\* RegisteringMessage::Register: the loop over the pending registrations, then the
\* clones moved into the task that buckets and writes.  `follow` says whether the
\* task the handler returns is followed: one task is followed at a time.
RegisteringMessage_Register(follow) ==
    /\ panicked = "none"
    /\ LET loop == RegisterLoop(1, athletes, edit_athlete_weight_categories)
           spawned == follow /\ loop.outcome = "task"
       IN /\ spawned => (pc = "idle" /\ registers < MaxRegisters)
          /\ athletes' = loop.athletes
          /\ edit_athlete_weight_categories' = loop.edits
          /\ panicked' = IF loop.outcome = "panic" THEN "index out of bounds" ELSE panicked
          /\ IF spawned
             THEN /\ registering_athletes' = registering.athletes
                  /\ name' = registering.name
                  /\ place' = registering.place
                  /\ date' = registering.date
                  /\ club' = self_club
                  /\ config' = Some([is_str |-> TRUE, str |-> configs.tournament_basedir])
                  /\ pc' = "loop"
                  /\ pos' = 0
                  /\ ret' = <<>>
                  /\ tournament_meta' = <<>>
                  /\ result' = None
                  /\ io_log' = <<>>
                  /\ wpos' = 0
                  /\ registers' = registers + 1
             ELSE UNCHANGED <<bucketVars, config, io_log, wpos, registers>>
    /\ UNCHANGED <<registering, self_club, configs, added, watched, graduations,
                   files, written, pureVars>>

(***************************************************************************)
(* The athlete store and the pending list under the messages of the        *)
(* adding, editing, deleting and registering pages.  The store starts      *)
(* empty, as after a first start without an athletes file; the tasks that  *)
(* Register spawns are followed in SpecTask.                               *)
(***************************************************************************)
InitStore ==
    /\ PureIdle
    /\ BucketIdle
    /\ IoIdle
    /\ AppIdle

NextStore ==
    \/ \E weight_category \in AddingWeightTexts : AddingMessage_Add(weight_category)
    \/ \E weight_category \in EditWeightTexts, index \in 1..MaxAdded :
           EditAthleteMessage_WeightCategory(weight_category, index)
    \/ EditAthleteMessage_Commit
    \/ \E to_delete \in 1..MaxAdded : DeletingMessage_Delete(to_delete)
    \/ \E selection \in 1..MaxAdded : RegisteringMessage_Add(selection)
    \/ \E weight_category \in RegisteringWeightTexts, index \in 1..MaxAdded :
           RegisteringMessage_WeightCategory(weight_category, index)
    \/ \E index \in 1..MaxAdded : RegisteringMessage_Delete(index)
    \/ RegisteringMessage_Register(FALSE)

SpecStore == InitStore /\ [][NextStore]_vars

(***************************************************************************)
(* The task a Register returns: it owns clones of the pending list, the    *)
(* event data, the club and the configuration, buckets, and writes the     *)
(* files, while the application goes on handling messages.                 *)
(***************************************************************************)
\* RegisteringMessage::Name(name)
RegisteringMessage_Name(text) ==
    /\ panicked = "none"
    /\ registering' = [registering EXCEPT !.name = text]
    /\ UNCHANGED <<athletes, edit_athlete_weight_categories, self_club, configs, panicked,
                   added, watched, graduations, pureVars, bucketVars, ioVars>>

\* EditClubMessage::ClubName(club_name)
EditClubMessage_ClubName(club_name) ==
    /\ panicked = "none"
    /\ self_club' = [self_club EXCEPT !.name = club_name]
    /\ UNCHANGED <<athletes, edit_athlete_weight_categories, registering, configs, panicked,
                   added, watched, graduations, pureVars, bucketVars, ioVars>>

\* ConfigMessage::SelectedTournamentBasedir(tournament_basedir): the dialog's answer
ConfigMessage_SelectedTournamentBasedir(tournament_basedir) ==
    /\ panicked = "none"
    /\ IF tournament_basedir # None
       THEN configs' = [configs EXCEPT !.tournament_basedir = tournament_basedir[1]]
       ELSE UNCHANGED configs
    /\ UNCHANGED <<athletes, edit_athlete_weight_categories, registering, self_club, panicked,
                   added, watched, graduations, pureVars, bucketVars, ioVars>>

\* registering_athletes_to_tournaments(&reg_athletes, ..).expect(..) in the task: one
\* iteration of the call's loop or its return; the None of a weight string that does
\* not parse is a panic of the task
TaskBucket ==
    IF /\ BucketRunning
       /\ WeightCategory_from_str(registering_athletes[pos + 1].weight_category) = None
    THEN /\ pc' = "panicked"
         /\ result' = None
         /\ UNCHANGED <<registering_athletes, name, date, place, club, tournament_meta, ret,
                        pos, pureVars, appVars, ioVars>>
    ELSE \/ BucketAppend
         \/ BucketCreate
         \/ BucketReturn

\* the texts typed while the task runs differ from the ones the form started with
TaskNames == {"a/b"}

TaskClubNames == {"Budo Club"}

\* the dialog cancelled, another directory chosen
TaskBasedirs == {None, Some(<<"/", "a", "l", "t">>)}

\* a weight cleared while the task runs
TaskWeightTexts == {<<>>}

\* the store after two athletes were added, the editor list holding their weights
TaskAthletes == SubSeq(PendingStore, 1, 2)

\* a pending registration as Add makes it, its weight string left or cleared
TaskRows ==
    UNION {{[RegisteringAthlete_from_athlete_at(TaskAthletes[i], i)
                EXCEPT !.weight_category = w] :
               w \in {WeightCategory_to_string(TaskAthletes[i].weight_category), <<>>}} :
           i \in 1..Len(TaskAthletes)}

\* pending lists: no athlete registered twice
TaskPendingLists ==
    {l \in UNION {[1..n -> TaskRows] : n \in 0..MaxPending} :
        \A k, q \in 1..Len(l) : k # q => l[k].index # l[q].index}

InitTask ==
    /\ PureIdle
    /\ BucketIdle
    /\ IoIdle
    /\ athletes = TaskAthletes
    /\ edit_athlete_weight_categories =
           [i \in 1..Len(TaskAthletes) |->
               WeightCategory_to_string(TaskAthletes[i].weight_category)]
    /\ added = Len(TaskAthletes)
    /\ watched = 0
    /\ graduations = 0
    /\ registering \in {[Registering_default EXCEPT !.athletes = l, !.name = "Cup",
                            !.place = "Hall"] : l \in TaskPendingLists}
    /\ self_club = RenderClub
    /\ configs = [tournament_basedir |-> <<"/", "o", "u", "t">>]
    /\ panicked = "none"

NextTask ==
    \/ RegisteringMessage_Register(TRUE)
    \/ TaskBucket
    \/ WriteTournamentsEmpty
    \/ WriteTournamentsGetConfig
    \/ WriteTournament
    \/ WriteTournamentOpenFails
    \/ WriteTournamentWriteFails
    \/ WriteTournamentsOk
    \/ \E text \in TaskNames : RegisteringMessage_Name(text)
    \/ \E club_name \in TaskClubNames : EditClubMessage_ClubName(club_name)
    \/ \E tournament_basedir \in TaskBasedirs :
           ConfigMessage_SelectedTournamentBasedir(tournament_basedir)
    \/ \E weight_category \in TaskWeightTexts, index \in 1..MaxPending :
           RegisteringMessage_WeightCategory(weight_category, index)
    \/ \E index \in 1..MaxPending : RegisteringMessage_Delete(index)

SpecTask == InitTask /\ [][NextTask]_vars

(***************************************************************************)
(* Further claims about registering_athletes_to_tournaments.               *)
(***************************************************************************)
\* C22: every tournament built by the call carries the call's event name, date and
\* place and a copy of the call's club, and its age category and bracket are the
\* key of the registrations grouped in it, so all tournaments of one call agree on
\* name, date, place and club.
C22_TournamentCarriesCallData ==
    /\ \A i \in 1..Len(ret) :
           /\ ret[i].name = name
           /\ ret[i].date = date
           /\ ret[i].place = place
           /\ ret[i].club = club
           /\ ret[i].athletes # <<>>
           /\ PersonsOf(ret[i].athletes) =
                  PersonsOf(RegistrationsWith(TournamentKey(ret[i]), pos))
    /\ (Returned /\ result # None) =>
           /\ result[1] = ret
           /\ \A i, j \in 1..Len(result[1]) :
                  /\ result[1][i].name = result[1][j].name
                  /\ result[1][i].date = result[1][j].date
                  /\ result[1][i].place = result[1][j].place
                  /\ result[1][i].club = result[1][j].club

\* three registrations returned as three tournaments with three different keys
C22_Witness ==
    /\ Returned
    /\ result # None
    /\ Len(result[1]) = 3
    /\ TournamentKey(result[1][1]) = <<"U18", "Mixed">>
    /\ TournamentKey(result[1][2]) = <<"U21", "Mixed">>
    /\ TournamentKey(result[1][3]) = <<"U21", "Male">>
    /\ result[1][3].name = "Cup"
    /\ result[1][3].place = "Hall"

\* a registration whose bracket is outside the legal brackets of its own gender
IllegalBracket(r) == r.gender_category \notin LegalBrackets(r.gender)

\* C23: the call does not re-check bracket legality: a registration whose bracket is
\* outside the legal brackets of its own gender does not make the call fail (the
\* call returns None only for a weight string) and is grouped under its bracket like
\* any other registration.
C23_IllegalBracketNotRejected ==
    Returned =>
        /\ (result = None) => ParseFails(registering_athletes[pos + 1])
        /\ (result # None) =>
               \A k \in 1..Len(registering_athletes) :
                   IllegalBracket(registering_athletes[k]) =>
                       \E i \in 1..Len(result[1]) :
                           /\ TournamentKey(result[1][i]) = RegKey(registering_athletes[k])
                           /\ \E a \in 1..Len(result[1][i].athletes) :
                                  Person(result[1][i].athletes[a])
                                      = Person(registering_athletes[k])

\* Anna (own gender Female) entered in the Male bracket opens the U18/Male tournament
C23_Witness ==
    /\ Returned
    /\ result # None
    /\ Len(registering_athletes) = 2
    /\ registering_athletes[1].gender = "Female"
    /\ registering_athletes[1].gender_category = "Male"
    /\ IllegalBracket(registering_athletes[1])
    /\ ~IllegalBracket(registering_athletes[2])
    /\ Len(result[1]) = 2
    /\ TournamentKey(result[1][1]) = <<"U18", "Male">>
    /\ result[1][1].athletes[1].given_name = "Anna"

(***************************************************************************)
(* Further claims about write_tournaments.                                 *)
(***************************************************************************)
\* the base directory is configured, so write_tournaments computes paths
BaseDirKnown == config # None /\ config[1].is_str

\* the paths opened so far by the Register being handled
OpenedPaths == {OpenCalls[j].path : j \in 1..Len(OpenCalls)}

Parses(weight_category_str) == WeightCategory_from_str(weight_category_str) # None

\* C21: on Commit of the athlete editor every athlete whose edited weight string does
\* not parse (the empty string included) keeps exactly the weight class it had
\* before, and every athlete whose string parses gets the parsed value.
C21_CommitKeepsUnparsed ==
    [][EditAthleteMessage_Commit =>
          /\ Len(athletes') = Len(athletes)
          /\ \A i \in 1..Len(athletes) :
                 athletes'[i] = [athletes[i] EXCEPT !.weight_category =
                     IF Parses(edit_athlete_weight_categories[i])
                     THEN WeightCategory_from_str(edit_athlete_weight_categories[i])[1]
                     ELSE athletes[i].weight_category]]_vars

\* the first athlete was committed to +90, the second kept -73 under an empty string
C21_Witness ==
    /\ Len(athletes) = 2
    /\ athletes[1].weight_category = [kind |-> "Over", limit |-> 90]
    /\ edit_athlete_weight_categories[1] = <<"+", "9", "0">>
    /\ athletes[2].weight_category = [kind |-> "Under", limit |-> 73]
    /\ edit_athlete_weight_categories[2] = <<>>

\* the Register being handled ends at a pending registration whose string does not parse
RegisterRejected ==
    /\ RegisteringMessage_Register(FALSE)
    /\ \E k \in 1..Len(registering.athletes) :
           ~Parses(registering.athletes[k].weight_category)

\* C24: a rejected Register leaves the athlete store unchanged: no athlete's stored
\* weight class and no entry of the editor's weight-string list differs from its value
\* before Register, also for pending registrations that precede the invalid one.
C24_RejectedRegisterKeepsStore ==
    [][RegisterRejected =>
          /\ athletes' = athletes
          /\ edit_athlete_weight_categories' = edit_athlete_weight_categories]_vars

\* the athlete a pending registration was made from: the adding form gives every
\* athlete another birth year
SamePerson(r, athlete) ==
    /\ r.given_name = athlete.given_name
    /\ r.sur_name = athlete.sur_name
    /\ r.birth_year = athlete.birth_year

\* the pending list after athlete d is deleted: the registration of d removed, the
\* indices above d lowered by one, everything else as it was
PendingAfterDelete(d) ==
    LET keep == {k \in 1..Len(registering.athletes) : registering.athletes[k].index # d}
        nth(q) == CHOOSE k \in keep : Cardinality({j \in keep : j < k}) = q - 1
    IN [q \in 1..Cardinality(keep) |->
           LET r == registering.athletes[nth(q)]
           IN IF r.index > d THEN [r EXCEPT !.index = r.index - 1] ELSE r]

\* C25: every pending registration's index is a position of the athlete list and
\* still designates the athlete the registration was made from; deleting athlete d
\* removes the pending registration with index d and lowers by one exactly the
\* indices greater than d.
C25_IndexDesignatesAthlete ==
    /\ [](/\ panicked = "none"
          /\ \A k \in 1..Len(registering.athletes) :
                 /\ registering.athletes[k].index \in 1..Len(athletes)
                 /\ SamePerson(registering.athletes[k],
                               athletes[registering.athletes[k].index]))
    /\ [][\A d \in 1..MaxAdded :
              DeletingMessage_Delete(d) =>
                  registering'.athletes = PendingAfterDelete(d)]_vars

\* the second athlete added is registered at position 1 after the first was deleted
C25_Witness ==
    /\ Len(athletes) = 1
    /\ athletes[1].birth_year = 2002
    /\ Len(registering.athletes) = 1
    /\ registering.athletes[1].index = 1
    /\ registering.athletes[1].birth_year = 2002

EditorFollowsAthletes ==
    \/ /\ Len(athletes') = Len(athletes)
       /\ Len(edit_athlete_weight_categories') = Len(edit_athlete_weight_categories)
       /\ \A i \in 1..Len(athletes) : athletes'[i].birth_year = athletes[i].birth_year
    \/ \E d \in 1..Len(athletes) :
           /\ athletes' = Vec_remove(athletes, d)
           /\ edit_athlete_weight_categories' = Vec_remove(edit_athlete_weight_categories, d)
    \/ /\ Len(athletes') = Len(athletes) + 1
       /\ SubSeq(athletes', 1, Len(athletes)) = athletes
       /\ edit_athlete_weight_categories' =
              Append(edit_athlete_weight_categories,
                     WeightCategory_to_string(athletes'[Len(athletes')].weight_category))

\* C27: the editor's weight-string list has exactly as many entries as the athlete
\* list and entry i belongs to athlete i, so the indexed accesses made while
\* registering and while rendering the editor never go out of bounds.
C27_EditorListAligned ==
    /\ [](/\ Len(edit_athlete_weight_categories) = Len(athletes)
          /\ panicked = "none")
    /\ [][EditorFollowsAthletes]_vars

\* the second athlete with its edited string "7" is left after the first was deleted
C27_Witness ==
    /\ Len(athletes) = 1
    /\ athletes[1].birth_year = 2002
    /\ edit_athlete_weight_categories = <<<<"7">>>>
    /\ added = 2


(***************************************************************************)
(* Claims about the task a Register returns.                               *)
(***************************************************************************)
\* a Register that returns the bucketing task
RegisterSpawns == pc = "idle" /\ pc' = "loop"

\* C28: whenever Register reaches the bucketing step, the list handed to the task is
\* the pending list the validation loop has just accepted, every weight string of it
\* parses, so registering_athletes_to_tournaments returns Some for it and the expect
\* on its result never panics, whatever the pending list becomes afterwards.
C28_ExpectNeverPanics ==
    /\ [](/\ pc # "panicked"
          /\ pc \in {"loop", "returned", "write"} =>
                 \A k \in 1..Len(registering_athletes) :
                     Parses(registering_athletes[k].weight_category)
          /\ Returned => result # None)
    /\ [][RegisterSpawns =>
              /\ registering_athletes' = registering.athletes
              /\ \A k \in 1..Len(registering.athletes) :
                     Parses(registering.athletes[k].weight_category)]_vars

\* the call has returned Some for two registrations while the pending list of the
\* application already holds a weight string that does not parse
C28_Witness ==
    /\ Returned
    /\ result # None
    /\ Len(registering_athletes) = 2
    /\ \E k \in 1..Len(registering.athletes) :
           ~Parses(registering.athletes[k].weight_category)

\* what the task was given when the Register message was handled
TaskSnapshot == <<registering_athletes, name, date, place, club, config>>

\* the same data as the application holds it now
LiveData ==
    <<registering.athletes, registering.name, registering.date, registering.place, self_club,
      Some([is_str |-> TRUE, str |-> configs.tournament_basedir])>>

====
